---- MODULE Spec2Model ----
(***************************************************************************)
(* Model of the calendrical core of the divination engine:                 *)
(*   AstroCalc        (Julian Day conversion, sun longitude)               *)
(*   SolarTermEngine  (solar terms, sexagenary pillars, hidden stems,      *)
(*                     void branches)                                      *)
(*                                                                         *)
(* Every function of the program is pure, so the state machine is a        *)
(* caller: from "idle" it calls one function on inputs drawn from bounded  *)
(* sets, the next state holds the arguments and the returned value, and    *)
(* Return goes back to "idle".                                             *)
(*                                                                         *)
(* Numbers.  Integers are 32 bits wide and there are no reals, so          *)
(*  - a Julian Day is a record [z, f] meaning  JD + 0.5 = z + f / TPD      *)
(*    (z = Math.floor(jd + 0.5) and f / TPD = F of jdToDate).  A double    *)
(*    holding a present-day JD (2^21 <= JD < 2^22) is a multiple of        *)
(*    2^-31 day; the model keeps the binary grid and scales it to          *)
(*    TPD = 2^20 ticks per day so that products stay within 32 bits;       *)
(*  - a JavaScript Date is a record [dn, sod]: days since 1970-01-01 and   *)
(*    second of the day, in UTC (all Dates here have whole seconds);       *)
(*  - an angle is an integer number of micro-degrees.                      *)
(*                                                                         *)
(* A value a function computes once and reads several times (a const of    *)
(* the source) is handed to a helper operator as a parameter; the helper   *)
(* is named after the function and holds the rest of its body.             *)
(***************************************************************************)
EXTENDS Integers, Sequences, FiniteSets, TLC

VARIABLES op, args, ret

vars == <<op, args, ret>>

(***************************************************************************)
(* Arithmetic of the host language                                         *)
(***************************************************************************)

\* Ticks of the day fraction of a Julian Day (a power of two, as in a double).
TPD == 2^20

\* One degree, in micro-degrees.
DEG == 10^6

\* JavaScript's % : the remainder has the sign of the dividend.
JSMod(a, b) == IF a >= 0 THEN a % b ELSE 0 - ((0 - a) % b)

Abs(x) == IF x < 0 THEN 0 - x ELSE x

\* Round-to-nearest quotient of integers, d > 0 (the rounding of a double).
RoundDiv(n, d) == (2 * n + d) \div (2 * d)

\* Seconds of a day -> ticks: the rounding of  day + hour / 24  to the grid
\* (TPD / 86400 = 8192 / 675).
SecToTicks(sec) == RoundDiv(sec * 8192, 675)

(***************************************************************************)
(* JavaScript Date: Date.UTC / getUTCFullYear, getUTCMonth, getUTCDate     *)
(***************************************************************************)

\* Day number (days since 1970-01-01) of a proleptic Gregorian civil date.
MakeDay(year, month, day) ==
    LET y   == IF month <= 2 THEN year - 1 ELSE year
        era == y \div 400
        yoe == y - era * 400
        mp  == IF month > 2 THEN month - 3 ELSE month + 9
        doy == (153 * mp + 2) \div 5 + day - 1
        doe == yoe * 365 + yoe \div 4 - yoe \div 100 + doy
    IN  era * 146097 + doe - 719468

\* Civil date of a day number, given the 400-year era, the day of the era and
\* the year of the era.
DateFromEra(era, doe, yoe) ==
    LET doy == doe - (365 * yoe + yoe \div 4 - yoe \div 100)
        mp  == (5 * doy + 2) \div 153
    IN  [year  |-> yoe + era * 400 + (IF mp < 10 THEN 0 ELSE 1),
         month |-> IF mp < 10 THEN mp + 3 ELSE mp - 9,
         day   |-> doy - (153 * mp + 2) \div 5 + 1]

DateFromDayOfEra(era, doe) ==
    DateFromEra(era, doe,
                (doe - doe \div 1460 + doe \div 36524 - doe \div 146096) \div 365)

\* Civil date of a day number.
DateFromDay(dn) ==
    DateFromDayOfEra((dn + 719468) \div 146097, (dn + 719468) % 146097)

\* Date.UTC(year, month - 1, day, hour, minute, second)
DateUTC(year, month, day, hour, minute, second) ==
    [dn |-> MakeDay(year, month, day), sod |-> hour * 3600 + minute * 60 + second]

\* new Date(date.getTime() + sec * 1000)
DateAddSeconds(date, sec) ==
    [dn  |-> date.dn + (date.sod + sec) \div 86400,
     sod |-> (date.sod + sec) % 86400]

(***************************************************************************)
(* AstroCalc: Julian Day conversion                                        *)
(***************************************************************************)

\* AstroCalc.dateToJD(date), given year and month after the January/February
\* shift, the day of the month and the second of the day
dateToJDShifted(year, month, day, sod) ==
    LET A == year \div 100
        B == 2 - A + A \div 4
        \* floor(365.25 (year + 4716)) + floor(30.6001 (month + 1)) + day + B - 1524.5
        \* is n - 0.5 with n an integer; hour / 24 is rounded onto the grid.
        n == (36525 * (year + 4716)) \div 100
             + (306001 * (month + 1)) \div 10000 + day + B - 1524
    IN  [z |-> n, f |-> SecToTicks(sod)]

\* AstroCalc.dateToJD(date), given the getUTC* fields of date
dateToJDFields(c, sod) ==
    IF c.month <= 2
    THEN dateToJDShifted(c.year - 1, c.month + 12, c.day, sod)
    ELSE dateToJDShifted(c.year, c.month, c.day, sod)

\* AstroCalc.dateToJD(date)
dateToJD(date) == dateToJDFields(DateFromDay(date.dn), date.sod)

\* AstroCalc.jdToDate(jd), given C, day and month
jdToDateFields(jd, C, day, month) ==
    LET year    == IF month > 2 THEN C - 4716 ELSE C - 4715
        \* hours = dayFrac * 24, minutes = (hours - hour) * 60, ... : exact products
        hours   == jd.f * 24
        minutes == (hours % TPD) * 60
    IN  DateUTC(year, month, day,
                hours \div TPD, minutes \div TPD, ((minutes % TPD) * 60) \div TPD)

\* AstroCalc.jdToDate(jd), given B, C, D and E
jdToDateE(jd, B, C, D, E) ==
    jdToDateFields(jd, C, B - D - (306001 * E) \div 10000,
                   IF E < 14 THEN E - 1 ELSE E - 13)

\* AstroCalc.jdToDate(jd), given B, C and D
jdToDateD(jd, B, C, D) == jdToDateE(jd, B, C, D, ((B - D) * 10000) \div 306001)

\* AstroCalc.jdToDate(jd), given B and C
jdToDateC(jd, B, C) == jdToDateD(jd, B, C, (36525 * C) \div 100)

\* AstroCalc.jdToDate(jd), given A
jdToDateA(jd, A) == jdToDateC(jd, A + 1524, (20 * (A + 1524) - 2442) \div 7305)

\* AstroCalc.jdToDate(jd), given alpha
jdToDateAlpha(jd, alpha) ==
    jdToDateA(jd, IF jd.z < 2299161 THEN jd.z ELSE jd.z + 1 + alpha - alpha \div 4)

\* AstroCalc.jdToDate(jd)
jdToDate(jd) == jdToDateAlpha(jd, (100 * jd.z - 186721625) \div 3652425)

(***************************************************************************)
(* Julian Day arithmetic on the grid                                       *)
(***************************************************************************)

\* a < b, a <= b for Julian Days
JDLess(a, b) == a.z < b.z \/ (a.z = b.z /\ a.f < b.f)

JDLeq(a, b) == a.z < b.z \/ (a.z = b.z /\ a.f <= b.f)

\* jd + ticks / TPD
JDAdd(jd, ticks) ==
    [z |-> jd.z + (jd.f + ticks) \div TPD, f |-> (jd.f + ticks) % TPD]

\* a - b in ticks (the two are less than 2047 days apart wherever this is used)
JDDiff(a, b) == (a.z - b.z) * TPD + (a.f - b.f)

\* An angle used as a number of days (jd += diff): micro-degrees -> ticks,
\* rounded onto the grid (TPD / DEG = 16384 / 15625).
DegToTicks(diff) ==
    (diff \div 15625) * 16384 + RoundDiv((diff % 15625) * 16384, 15625)

(***************************************************************************)
(* AstroCalc: sun longitude                                                *)
(***************************************************************************)

\* Math.sin of whole degrees 0..90, times 10^6
SinTable ==
    << 0, 17452, 34899, 52336, 69756, 87156, 104528,
       121869, 139173, 156434, 173648, 190809, 207912, 224951,
       241922, 258819, 275637, 292372, 309017, 325568, 342020,
       358368, 374607, 390731, 406737, 422618, 438371, 453990,
       469472, 484810, 500000, 515038, 529919, 544639, 559193,
       573576, 587785, 601815, 615661, 629320, 642788, 656059,
       669131, 681998, 694658, 707107, 719340, 731354, 743145,
       754710, 766044, 777146, 788011, 798636, 809017, 819152,
       829038, 838671, 848048, 857167, 866025, 874620, 882948,
       891007, 898794, 906308, 913545, 920505, 927184, 933580,
       939693, 945519, 951057, 956305, 961262, 965926, 970296,
       974370, 978148, 981627, 984808, 987688, 990268, 992546,
       994522, 996195, 997564, 998630, 999391, 999848, 1000000 >>

\* The table at degree i in 0..90, interpolated linearly fr / 10^5 of the way
\* to the next degree
SinQuadrant(i, fr) ==
    SinTable[i + 1]
    + ((SinTable[IF i = 90 THEN i + 1 ELSE i + 2] - SinTable[i + 1]) * fr) \div 100000

\* sin of an angle a1 in 0..180 degrees
SinHalfTurn(a1) ==
    IF a1 > 90 * DEG
    THEN SinQuadrant((180 * DEG - a1) \div DEG, ((180 * DEG - a1) % DEG) \div 10)
    ELSE SinQuadrant(a1 \div DEG, (a1 % DEG) \div 10)

\* Math.sin(a * DEG_TO_RAD) * 10^6 for an angle a >= 0 in micro-degrees
Sin(a) ==
    IF a % (360 * DEG) >= 180 * DEG
    THEN 0 - SinHalfTurn(a % (180 * DEG))
    ELSE SinHalfTurn(a % (180 * DEG))

\* AstroCalc.normalizeDegrees(deg)
normalizeDegrees(deg) ==
    LET result == JSMod(deg, 360 * DEG)
    IN  IF result < 0 THEN result + 360 * DEG ELSE result

\* rate * (jd - 2451545.0) modulo 360 degrees, jd - 2451545.0 being dd days
\* and g ticks, for a rate of (perDay + perDay4 / 10^4) micro-degrees a day,
\* which is (perTick3 / 10^3 + perTick6 / 10^6) micro-degrees a tick.
MeanMotion(dd, g, perDay, perDay4, perTick3, perTick6) ==
    1000 * ((perDay * (dd \div 1000)) % 360000) + perDay * (dd % 1000)
    + (dd * perDay4) \div 10000
    + (g * perTick3) \div 1000 + (g * perTick6) \div 1000000

\* AstroCalc.julianCentury(jd), in thousandths of a century
julianCentury(jd) == ((jd.z - 2451545) * 1000) \div 36525

\* A coefficient c in micro-degrees times a sine scaled by 10^6
MulSin(c, sine) == ((c \div 1000) * sine) \div 1000 + ((c % 1000) * sine) \div 1000000

\* L0 = normalizeDegrees(280.46646 + 36000.76983 T + 0.0003032 T^2)
MeanLongitude(dd, g, T) ==
    normalizeDegrees(280466460 + MeanMotion(dd, g, 985647, 3602, 939, 987)
                     + (303 * ((T * T) \div 1000)) \div 1000)

\* M = normalizeDegrees(357.52911 + 35999.05029 T - 0.0001537 T^2)
MeanAnomaly(dd, g, T) ==
    normalizeDegrees(357529110 + MeanMotion(dd, g, 985600, 2817, 939, 942)
                     - (154 * ((T * T) \div 1000)) \div 1000)

\* C = (1.914602 - 0.004817 T - 0.000014 T^2) sin M
\*     + (0.019993 - 0.000101 T) sin 2M + 0.000289 sin 3M
EquationOfCenter(T, M) ==
    MulSin(1914602 - (4817 * T) \div 1000 - (14 * ((T * T) \div 1000)) \div 1000, Sin(M))
    + MulSin(19993 - (101 * T) \div 1000, Sin(2 * M))
    + MulSin(289, Sin(3 * M))

\* AstroCalc.getSunLongitude(jd), given jd - 2451545.0 (dd days and g ticks)
\* and T
getSunLongitudeAt(dd, g, T) ==
    normalizeDegrees(MeanLongitude(dd, g, T) + EquationOfCenter(T, MeanAnomaly(dd, g, T)))

\* AstroCalc.getSunLongitude(jd), in micro-degrees
getSunLongitude(jd) ==
    getSunLongitudeAt(jd.z - 2451545, jd.f - TPD \div 2, julianCentury(jd))

(***************************************************************************)
(* SolarTermEngine: tables                                                 *)
(***************************************************************************)

\* SolarTermEngine.STEMS (index + 1)
STEMS == <<"Jia", "Yi", "Bing", "Ding", "Wu", "Ji", "Geng", "Xin", "Ren", "Gui">>

\* SolarTermEngine.BRANCHES (index + 1)
BRANCHES ==
    <<"zi", "chou", "yin", "mao", "chen", "si",
      "wu", "wei", "shen", "you", "xu", "hai">>

\* SolarTermEngine.SOLAR_TERMS_FULL (index + 1)
SOLAR_TERMS_FULL ==
    << [name |-> "xiaohan",     longitude |-> 285, monthNum |-> 12, isJie |-> TRUE],
       [name |-> "dahan",       longitude |-> 300, monthNum |-> 12, isJie |-> FALSE],
       [name |-> "lichun",      longitude |-> 315, monthNum |-> 1,  isJie |-> TRUE],
       [name |-> "yushui",      longitude |-> 330, monthNum |-> 1,  isJie |-> FALSE],
       [name |-> "jingzhe",     longitude |-> 345, monthNum |-> 2,  isJie |-> TRUE],
       [name |-> "chunfen",     longitude |-> 0,   monthNum |-> 2,  isJie |-> FALSE],
       [name |-> "qingming",    longitude |-> 15,  monthNum |-> 3,  isJie |-> TRUE],
       [name |-> "guyu",        longitude |-> 30,  monthNum |-> 3,  isJie |-> FALSE],
       [name |-> "lixia",       longitude |-> 45,  monthNum |-> 4,  isJie |-> TRUE],
       [name |-> "xiaoman",     longitude |-> 60,  monthNum |-> 4,  isJie |-> FALSE],
       [name |-> "mangzhong",   longitude |-> 75,  monthNum |-> 5,  isJie |-> TRUE],
       [name |-> "xiazhi",      longitude |-> 90,  monthNum |-> 5,  isJie |-> FALSE],
       [name |-> "xiaoshu",     longitude |-> 105, monthNum |-> 6,  isJie |-> TRUE],
       [name |-> "dashu",       longitude |-> 120, monthNum |-> 6,  isJie |-> FALSE],
       [name |-> "liqiu",       longitude |-> 135, monthNum |-> 7,  isJie |-> TRUE],
       [name |-> "chushu",      longitude |-> 150, monthNum |-> 7,  isJie |-> FALSE],
       [name |-> "bailu",       longitude |-> 165, monthNum |-> 8,  isJie |-> TRUE],
       [name |-> "qiufen",      longitude |-> 180, monthNum |-> 8,  isJie |-> FALSE],
       [name |-> "hanlu",       longitude |-> 195, monthNum |-> 9,  isJie |-> TRUE],
       [name |-> "shuangjiang", longitude |-> 210, monthNum |-> 9,  isJie |-> FALSE],
       [name |-> "lidong",      longitude |-> 225, monthNum |-> 10, isJie |-> TRUE],
       [name |-> "xiaoxue",     longitude |-> 240, monthNum |-> 10, isJie |-> FALSE],
       [name |-> "daxue",       longitude |-> 255, monthNum |-> 11, isJie |-> TRUE],
       [name |-> "dongzhi",     longitude |-> 270, monthNum |-> 11, isJie |-> FALSE] >>

\* SolarTermEngine.JIE_TERMS (index + 1)
JIE_TERMS ==
    << [name |-> "lichun",    longitude |-> 315, monthNum |-> 1,  branchIndex |-> 2],
       [name |-> "jingzhe",   longitude |-> 345, monthNum |-> 2,  branchIndex |-> 3],
       [name |-> "qingming",  longitude |-> 15,  monthNum |-> 3,  branchIndex |-> 4],
       [name |-> "lixia",     longitude |-> 45,  monthNum |-> 4,  branchIndex |-> 5],
       [name |-> "mangzhong", longitude |-> 75,  monthNum |-> 5,  branchIndex |-> 6],
       [name |-> "xiaoshu",   longitude |-> 105, monthNum |-> 6,  branchIndex |-> 7],
       [name |-> "liqiu",     longitude |-> 135, monthNum |-> 7,  branchIndex |-> 8],
       [name |-> "bailu",     longitude |-> 165, monthNum |-> 8,  branchIndex |-> 9],
       [name |-> "hanlu",     longitude |-> 195, monthNum |-> 9,  branchIndex |-> 10],
       [name |-> "lidong",    longitude |-> 225, monthNum |-> 10, branchIndex |-> 11],
       [name |-> "daxue",     longitude |-> 255, monthNum |-> 11, branchIndex |-> 0],
       [name |-> "xiaohan",   longitude |-> 285, monthNum |-> 12, branchIndex |-> 1] >>

\* SolarTermEngine.HIDDEN_STEMS_DETAIL: per branch, the stems in order and the
\* days each one governs
HIDDEN_STEMS_DETAIL ==
    [b \in {BRANCHES[k] : k \in 1..12} |->
        CASE b = "zi"   -> [stems |-> <<"Ren", "Gui">>,         days |-> <<10, 20>>]
          [] b = "chou" -> [stems |-> <<"Gui", "Xin", "Ji">>,   days |-> <<9, 3, 18>>]
          [] b = "yin"  -> [stems |-> <<"Wu", "Bing", "Jia">>,  days |-> <<7, 7, 16>>]
          [] b = "mao"  -> [stems |-> <<"Jia", "Yi">>,          days |-> <<10, 20>>]
          [] b = "chen" -> [stems |-> <<"Yi", "Gui", "Wu">>,    days |-> <<9, 3, 18>>]
          [] b = "si"   -> [stems |-> <<"Wu", "Geng", "Bing">>, days |-> <<7, 7, 16>>]
          [] b = "wu"   -> [stems |-> <<"Bing", "Ji", "Ding">>, days |-> <<10, 9, 11>>]
          [] b = "wei"  -> [stems |-> <<"Ding", "Yi", "Ji">>,   days |-> <<9, 3, 18>>]
          [] b = "shen" -> [stems |-> <<"Ji", "Ren", "Geng">>,  days |-> <<7, 7, 16>>]
          [] b = "you"  -> [stems |-> <<"Geng", "Xin">>,        days |-> <<10, 20>>]
          [] b = "xu"   -> [stems |-> <<"Xin", "Ding", "Wu">>,  days |-> <<9, 3, 18>>]
          [] b = "hai"  -> [stems |-> <<"Wu", "Jia", "Ren">>,   days |-> <<7, 7, 16>>]]

\* SolarTermEngine.MONTH_STEM_START (year stem index + 1)
MONTH_STEM_START == <<2, 4, 6, 8, 0, 2, 4, 6, 8, 0>>

\* SolarTermEngine.HOUR_STEM_START (day stem index + 1)
HOUR_STEM_START == <<0, 2, 4, 6, 8, 0, 2, 4, 6, 8>>

\* SolarTermEngine.VOID_BRANCHES_TABLE (group index + 1)
VOID_BRANCHES_TABLE ==
    << <<"xu", "hai">>, <<"shen", "you">>, <<"wu", "wei">>,
       <<"chen", "si">>, <<"yin", "mao">>, <<"zi", "chou">> >>

(***************************************************************************)
(* The host's time zone, which new Date(year, month, day) reads            *)
(***************************************************************************)

\* Zones a host may be configured with: the standard offset from UTC in
\* minutes, and the months of the years throughout which summer time adds dst.
HostZones ==
    { [name |-> "Asia/Tokyo",       std |-> 540, dst |-> 60, months |-> {6, 7, 8},
       from |-> 1948, to |-> 1951],
      [name |-> "UTC",              std |-> 0,   dst |-> 0,  months |-> {},
       from |-> 0, to |-> 0],
      [name |-> "Europe/Berlin",    std |-> 60,  dst |-> 60, months |-> {4, 5, 6, 7, 8, 9},
       from |-> 1980, to |-> 2100],
      [name |-> "Australia/Sydney", std |-> 600, dst |-> 60, months |-> {11, 12, 1, 2},
       from |-> 1972, to |-> 2100] }

\* Offset from UTC, in minutes, in force at local midnight of a civil date.
HostOffset(zone, year, month) ==
    zone.std + (IF year >= zone.from /\ year <= zone.to /\ month \in zone.months
                THEN zone.dst ELSE 0)

\* new Date(year, month - 1, day): local midnight, in minutes since the epoch
LocalMidnight(zone, year, month, day) ==
    MakeDay(year, month, day) * 1440 - HostOffset(zone, year, month)

(***************************************************************************)
(* SolarTermEngine: day pillar                                             *)
(***************************************************************************)

\* Pillar with the branch taken modulo 10, like the stem
PillarOneModulus(sexagenaryIndex) ==
    LET stemIndex   == JSMod(sexagenaryIndex, 10)
        branchIndex == JSMod(sexagenaryIndex, 10)
    IN  [stemIndex |-> stemIndex, branchIndex |-> branchIndex,
         stem |-> STEMS[stemIndex + 1], branch |-> BRANCHES[branchIndex + 1]]

\* The pillar of a sexagenary index (stemIndex = index % 10, branchIndex = index % 12)
Pillar(sexagenaryIndex) ==
    LET stemIndex   == JSMod(sexagenaryIndex, 10)
        branchIndex == JSMod(sexagenaryIndex, 12)
    IN  [stemIndex |-> stemIndex, branchIndex |-> branchIndex,
         stem |-> STEMS[stemIndex + 1], branch |-> BRANCHES[branchIndex + 1]]

\* The pillar calcDayPillar returns for a sexagenary index and its pillar p
DayPillar(sexagenaryIndex, p) ==
    [stemIndex |-> p.stemIndex, branchIndex |-> p.branchIndex,
     stem |-> p.stem, branch |-> p.branch, sexagenaryIndex |-> sexagenaryIndex]

\* SolarTermEngine.calcDayPillar(jd), given sexagenaryIndex
calcDayPillarAt(sexagenaryIndex) == DayPillar(sexagenaryIndex, Pillar(sexagenaryIndex))

\* SolarTermEngine.calcDayPillar(jd), given daysDiff (kuikaiIndex = 59)
calcDayPillarOf(daysDiff) == calcDayPillarAt(JSMod(JSMod(59 + daysDiff, 60) + 60, 60))

\* SolarTermEngine.calcDayPillar(jd), given the getUTC* fields of jstDate
calcDayPillarOn(jst, zone) ==
    calcDayPillarOf((LocalMidnight(zone, jst.year, jst.month, jst.day)
                     - LocalMidnight(zone, 1992, 2, 17)) \div (24 * 60))

\* SolarTermEngine.calcDayPillar(jd), on a host configured with zone
calcDayPillar(jd, zone) ==
    calcDayPillarOn(DateFromDay(DateAddSeconds(jdToDate(jd), 9 * 60 * 60).dn), zone)

(***************************************************************************)
(* SolarTermEngine: solar terms                                            *)
(***************************************************************************)

\* The value null
Null == [null |-> TRUE]

\* diff = target - lon;  if (diff > 180) diff -= 360;  if (diff < -180) diff += 360
WrapDiff(diff) ==
    LET d1 == IF diff > 180 * DEG THEN diff - 360 * DEG ELSE diff
    IN  IF d1 < 0 - 180 * DEG THEN d1 + 360 * DEG ELSE d1

\* The correction loop of findSolarTermJD from iteration i on: the estimate it
\* ends with, the number of longitudes it evaluated, and whether it left
\* through the tolerance test.  findSolarTermStep is the body of the loop
\* once diff is computed.
RECURSIVE findSolarTermLoop(_, _, _)
RECURSIVE findSolarTermStep(_, _, _, _)
findSolarTermStep(targetLongitude, jd, i, diff) ==
    IF Abs(diff) < 10
    THEN [jd |-> jd, evaluations |-> i + 1, converged |-> TRUE]
    ELSE findSolarTermLoop(targetLongitude, JDAdd(jd, DegToTicks(diff)), i + 1)

\* The loop of findSolarTermJD with a budget of 3 iterations instead of 30
findSolarTermLoopShort(targetLongitude, jd, i) ==
    IF i >= 3
    THEN [jd |-> jd, evaluations |-> i, converged |-> FALSE]
    ELSE findSolarTermStep(targetLongitude, jd, i,
                           WrapDiff(targetLongitude - getSunLongitude(jd)))

\* The loop of findSolarTermJD with a budget of 40 iterations instead of 30
findSolarTermLoopLong(targetLongitude, jd, i) ==
    IF i >= 40
    THEN [jd |-> jd, evaluations |-> i, converged |-> FALSE]
    ELSE findSolarTermStep(targetLongitude, jd, i,
                           WrapDiff(targetLongitude - getSunLongitude(jd)))

findSolarTermLoop(targetLongitude, jd, i) ==
    IF i >= 30
    THEN [jd |-> jd, evaluations |-> i, converged |-> FALSE]
    ELSE findSolarTermStep(targetLongitude, jd, i,
                           WrapDiff(targetLongitude - getSunLongitude(jd)))

\* SolarTermEngine.findSolarTermJD(targetLongitude, startJD);
\* targetLongitude in micro-degrees
findSolarTermJD(targetLongitude, startJD) ==
    findSolarTermLoop(
        targetLongitude,
        JDAdd(startJD, DegToTicks(WrapDiff(targetLongitude - getSunLongitude(startJD)))),
        0).jd

\* What the loop of findSolarTermJD(targetLongitude, startJD) did: the estimate
\* it ended with, the longitudes it evaluated and how it was left
findSolarTermRun(targetLongitude, startJD) ==
    findSolarTermLoop(
        targetLongitude,
        JDAdd(startJD, DegToTicks(WrapDiff(targetLongitude - getSunLongitude(startJD)))),
        0)

\* SOLAR_TERMS_FULL.find(t => t.name === termName), as an index + 1 (0: none)
TermIndex(termName) ==
    IF \E k \in 1..Len(SOLAR_TERMS_FULL) : SOLAR_TERMS_FULL[k].name = termName
    THEN CHOOSE k \in 1..Len(SOLAR_TERMS_FULL) : SOLAR_TERMS_FULL[k].name = termName
    ELSE 0

\* SolarTermEngine.getSolarTermJD(year, termName), given the place k of the
\* term in SOLAR_TERMS_FULL (termIndex + 1)
getSolarTermJDAt(year, k) ==
    LET termIndex   == k - 1
        approxMonth == IF termIndex <= 1 THEN 0 ELSE termIndex \div 2
        approxDate  == DateUTC(year, approxMonth + 1, 1 + (termIndex % 2) * 15, 0, 0, 0)
    IN  findSolarTermJD(SOLAR_TERMS_FULL[k].longitude * DEG, dateToJD(approxDate))

\* getSolarTermJD with the first term of the table standing in for a name
\* that is not in it
getSolarTermJDFallback(year, termName) ==
    IF TermIndex(termName) = 0
    THEN getSolarTermJDAt(year, 1)
    ELSE getSolarTermJDAt(year, TermIndex(termName))

\* SolarTermEngine.getSolarTermJD(year, termName)
getSolarTermJD(year, termName) ==
    IF TermIndex(termName) = 0 THEN Null ELSE getSolarTermJDAt(year, TermIndex(termName))

\* approxJD of getSolarTermJD for the term at place k of SOLAR_TERMS_FULL
getSolarTermApproxJD(year, k) ==
    LET termIndex   == k - 1
        approxMonth == IF termIndex <= 1 THEN 0 ELSE termIndex \div 2
    IN  dateToJD(DateUTC(year, approxMonth + 1, 1 + (termIndex % 2) * 15, 0, 0, 0))

\* The calls of getSunLongitude that getSolarTermJD(year, termName) makes: none
\* when it returns before the search, else one for the first jump and those
\* of the loop
getSolarTermEvaluations(year, termName) ==
    IF TermIndex(termName) = 0
    THEN 0
    ELSE 1 + findSolarTermRun(SOLAR_TERMS_FULL[TermIndex(termName)].longitude * DEG,
                              getSolarTermApproxJD(year, TermIndex(termName))).evaluations

\* SolarTermEngine.getLichunJD(year)
getLichunJD(year) == getSolarTermJD(year, "lichun")

(***************************************************************************)
(* SolarTermEngine: year pillar                                            *)
(***************************************************************************)

\* The pillar calcYearPillar returns for a year and the pillar p of its offset
YearPillar(year, p) ==
    [stemIndex |-> p.stemIndex, branchIndex |-> p.branchIndex,
     stem |-> p.stem, branch |-> p.branch, year |-> year]

\* SolarTermEngine.calcYearPillar(jd), given the year after the lichun test
calcYearPillarOf(year) == YearPillar(year, Pillar(JSMod(JSMod(year - 1984, 60) + 60, 60)))

\* calcYearPillar with the test jd <= lichunJD: the start-of-spring instant
\* itself would still belong to the previous year
calcYearPillarInclusive(jd, year) ==
    IF JDLeq(jd, getLichunJD(year))
    THEN calcYearPillarOf(year - 1)
    ELSE calcYearPillarOf(year)

\* SolarTermEngine.calcYearPillar(jd), given date.getUTCFullYear()
calcYearPillarIn(jd, year) ==
    IF JDLess(jd, getLichunJD(year))
    THEN calcYearPillarOf(year - 1)
    ELSE calcYearPillarOf(year)

\* SolarTermEngine.calcYearPillar(jd)
calcYearPillar(jd) == calcYearPillarIn(jd, DateFromDay(jdToDate(jd).dn).year)

(***************************************************************************)
(* SolarTermEngine: month pillar                                           *)
(***************************************************************************)

\* let prevJieJD = 0
ZeroJD == [z |-> 0, f |-> TPD \div 2]

\* The two nested loops of getPreviousJie from candidate n on (n = 0..35:
\* year - 1 + n \div 12, JIE_TERMS[n % 12]); prevJie is the term held so far,
\* or Null, and prevJieJD its instant.  getPreviousJieStep is the body of the
\* loop once jieJD is computed.
RECURSIVE getPreviousJieLoop(_, _, _, _, _)
RECURSIVE getPreviousJieStep(_, _, _, _, _, _, _, _)

\* getPreviousJie's loop body with the test jieJD < jd: a term that begins at
\* jd itself would not count
getPreviousJieStepStrict(jd, year, n, prevJie, prevJieJD, y, jie, jieJD) ==
    IF jieJD # Null /\ JDLess(jieJD, jd) /\ JDLess(prevJieJD, jieJD)
    THEN getPreviousJieLoop(jd, year, n + 1,
             [name |-> jie.name, longitude |-> jie.longitude,
              monthNum |-> jie.monthNum, branchIndex |-> jie.branchIndex,
              jd |-> jieJD, year |-> y],
             jieJD)
    ELSE getPreviousJieLoop(jd, year, n + 1, prevJie, prevJieJD)

getPreviousJieStep(jd, year, n, prevJie, prevJieJD, y, jie, jieJD) ==
    IF jieJD # Null /\ JDLeq(jieJD, jd) /\ JDLess(prevJieJD, jieJD)
    THEN getPreviousJieLoop(jd, year, n + 1,
             [name |-> jie.name, longitude |-> jie.longitude,
              monthNum |-> jie.monthNum, branchIndex |-> jie.branchIndex,
              jd |-> jieJD, year |-> y],
             jieJD)
    ELSE getPreviousJieLoop(jd, year, n + 1, prevJie, prevJieJD)

getPreviousJieLoop(jd, year, n, prevJie, prevJieJD) ==
    IF n >= 3 * Len(JIE_TERMS)
    THEN prevJie
    ELSE getPreviousJieStep(jd, year, n, prevJie, prevJieJD,
             year - 1 + (n \div Len(JIE_TERMS)),
             JIE_TERMS[(n % Len(JIE_TERMS)) + 1],
             getSolarTermJD(year - 1 + (n \div Len(JIE_TERMS)),
                            JIE_TERMS[(n % Len(JIE_TERMS)) + 1].name))

\* SolarTermEngine.getPreviousJie(jd), given prevJie; daysFromJieqi in ticks
getPreviousJieResult(jd, prevJie) ==
    IF prevJie = Null
    THEN [name |-> "lichun", jd |-> jd, monthNum |-> 1, branchIndex |-> 2,
          daysFromJieqi |-> 0, year |-> Null]
    ELSE [name |-> prevJie.name, jd |-> prevJie.jd, monthNum |-> prevJie.monthNum,
          branchIndex |-> prevJie.branchIndex,
          daysFromJieqi |-> JDDiff(jd, prevJie.jd), year |-> prevJie.year]

\* SolarTermEngine.getPreviousJie(jd)
getPreviousJie(jd) ==
    getPreviousJieResult(
        jd, getPreviousJieLoop(jd, DateFromDay(jdToDate(jd).dn).year, 0, Null, ZeroJD))

\* calcMonthPillar with monthOffset = monthNum: the first month would not get
\* the base stem
calcMonthPillarOfShifted(jie, yearStemIndex) ==
    LET branchIndex == jie.branchIndex
        baseStem    == MONTH_STEM_START[yearStemIndex + 1]
        monthOffset == jie.monthNum
        stemIndex   == JSMod(baseStem + monthOffset, 10)
    IN  [stemIndex |-> stemIndex, branchIndex |-> branchIndex,
         stem |-> STEMS[stemIndex + 1], branch |-> BRANCHES[branchIndex + 1],
         monthNum |-> jie.monthNum, jieName |-> jie.name, jieJD |-> jie.jd,
         daysFromJieqi |-> jie.daysFromJieqi]

\* SolarTermEngine.calcMonthPillar(jd, yearStemIndex), given jie
calcMonthPillarOf(jie, yearStemIndex) ==
    LET branchIndex == jie.branchIndex
        baseStem    == MONTH_STEM_START[yearStemIndex + 1]
        monthOffset == jie.monthNum - 1
        stemIndex   == JSMod(baseStem + monthOffset, 10)
    IN  [stemIndex |-> stemIndex, branchIndex |-> branchIndex,
         stem |-> STEMS[stemIndex + 1], branch |-> BRANCHES[branchIndex + 1],
         monthNum |-> jie.monthNum, jieName |-> jie.name, jieJD |-> jie.jd,
         daysFromJieqi |-> jie.daysFromJieqi]

\* SolarTermEngine.calcMonthPillar(jd, yearStemIndex)
calcMonthPillar(jd, yearStemIndex) == calcMonthPillarOf(getPreviousJie(jd), yearStemIndex)

(***************************************************************************)
(* SolarTermEngine: hour pillar                                            *)
(***************************************************************************)

\* calcHourPillar without the borrow: the hour from 23:00 would use the stem
\* of the current day
calcHourPillarNoBorrow(localDate, dayStemIndex, use23Switch) ==
    LET hour        == localDate.hours
        branchIndex == IF use23Switch
                       THEN IF hour >= 23 THEN 0
                            ELSE IF hour < 1 THEN 0
                            ELSE (hour + 1) \div 2
                       ELSE JSMod((hour + 1) \div 2, 12)
        baseStem    == HOUR_STEM_START[dayStemIndex + 1]
        stemIndex   == JSMod(baseStem + branchIndex, 10)
    IN  [stemIndex |-> stemIndex, branchIndex |-> branchIndex,
         stem |-> STEMS[stemIndex + 1], branch |-> BRANCHES[branchIndex + 1],
         hour |-> hour, minute |-> localDate.minutes,
         use23Switch |-> use23Switch, dayAdjusted |-> use23Switch /\ hour >= 23]

\* SolarTermEngine.calcHourPillar(localDate, dayStemIndex, use23Switch);
\* localDate is [hours, minutes], what getHours() and getMinutes() return
calcHourPillar(localDate, dayStemIndex, use23Switch) ==
    LET hour        == localDate.hours
        adjustDay   == use23Switch /\ hour >= 23
        branchIndex == IF use23Switch
                       THEN IF hour >= 23 THEN 0
                            ELSE IF hour < 1 THEN 0
                            ELSE (hour + 1) \div 2
                       ELSE JSMod((hour + 1) \div 2, 12)
        effectiveDayStemIndex ==
            IF adjustDay THEN JSMod(dayStemIndex + 1, 10) ELSE dayStemIndex
        baseStem    == HOUR_STEM_START[effectiveDayStemIndex + 1]
        stemIndex   == JSMod(baseStem + branchIndex, 10)
    IN  [stemIndex |-> stemIndex, branchIndex |-> branchIndex,
         stem |-> STEMS[stemIndex + 1], branch |-> BRANCHES[branchIndex + 1],
         hour |-> hour, minute |-> localDate.minutes,
         use23Switch |-> use23Switch, dayAdjusted |-> adjustDay]

(***************************************************************************)
(* SolarTermEngine: hidden stems                                           *)
(***************************************************************************)

\* The loop of getHiddenStems from span i (1-based) on, with the days
\* accumulated so far; daysFromJieqi in ticks
RECURSIVE getHiddenStemsLoop(_, _, _, _)

\* getHiddenStems' loop with the test daysFromJieqi <= cumulative: a span would
\* still govern the instant it ends
getHiddenStemsLoopInclusive(detail, daysFromJieqi, i, cumulative) ==
    IF i > Len(detail.days)
    THEN [mainStem |-> detail.stems[Len(detail.stems)], phase |-> "proper"]
    ELSE IF daysFromJieqi <= (cumulative + detail.days[i]) * TPD
         THEN [mainStem |-> detail.stems[i],
               phase |-> IF i = 1 THEN "residual"
                         ELSE IF i = Len(detail.stems) THEN "proper"
                         ELSE "middle"]
         ELSE getHiddenStemsLoop(detail, daysFromJieqi, i + 1,
                                 cumulative + detail.days[i])

getHiddenStemsLoop(detail, daysFromJieqi, i, cumulative) ==
    IF i > Len(detail.days)
    THEN [mainStem |-> detail.stems[Len(detail.stems)], phase |-> "proper"]
    ELSE IF daysFromJieqi < (cumulative + detail.days[i]) * TPD
         THEN [mainStem |-> detail.stems[i],
               phase |-> IF i = 1 THEN "residual"
                         ELSE IF i = Len(detail.stems) THEN "proper"
                         ELSE "middle"]
         ELSE getHiddenStemsLoop(detail, daysFromJieqi, i + 1,
                                 cumulative + detail.days[i])

\* SolarTermEngine.getHiddenStems(branch, daysFromJieqi); daysFromJieqi in ticks
getHiddenStems(branch, daysFromJieqi) ==
    IF branch \notin DOMAIN HIDDEN_STEMS_DETAIL
    THEN [mainStem |-> Null, allStems |-> <<>>, phase |-> Null]
    ELSE LET detail == HIDDEN_STEMS_DETAIL[branch]
             found  == getHiddenStemsLoop(detail, daysFromJieqi, 1, 0)
         IN  [mainStem |-> found.mainStem, allStems |-> detail.stems,
              days |-> detail.days, phase |-> found.phase,
              daysFromJieqi |-> daysFromJieqi]

(***************************************************************************)
(* SolarTermEngine: void branches                                          *)
(***************************************************************************)

\* calcVoidBranches with groups of 12 indices instead of 10
calcVoidBranchesByTwelve(dayPillar) ==
    LET sexagenaryIndex == dayPillar.sexagenaryIndex
        groupIndex      == sexagenaryIndex \div 12
        branches        == VOID_BRANCHES_TABLE[groupIndex + 1]
        groupNames      == <<"Jia-zi xun", "Jia-xu xun", "Jia-shen xun",
                              "Jia-wu xun", "Jia-chen xun", "Jia-yin xun">>
    IN  [branches |-> branches, groupName |-> groupNames[groupIndex + 1]]

\* SolarTermEngine.calcVoidBranches(dayPillar)
calcVoidBranches(dayPillar) ==
    LET sexagenaryIndex == dayPillar.sexagenaryIndex
        groupIndex      == sexagenaryIndex \div 10
        branches        == VOID_BRANCHES_TABLE[groupIndex + 1]
        groupNames      == <<"Jia-zi xun", "Jia-xu xun", "Jia-shen xun",
                              "Jia-wu xun", "Jia-chen xun", "Jia-yin xun">>
    IN  [branches |-> branches, groupName |-> groupNames[groupIndex + 1]]

(***************************************************************************)
(* Inputs                                                                  *)
(***************************************************************************)

\* Days explored after each probe date.
DaySpan == 3

\* Consecutive days explored from 30 days before the day-pillar anchor.
CycleSpan == 64

\* Ticks explored on each side of a solar-term instant.
TermSpan == 1

\* Whole days of elapsed time explored by the hidden-stem lookup.
HiddenDaySpan == 31

\* Julian Day Numbers of the probe dates: 1900-02-27, 1950-06-29 and 1950-08-30
\* (Japanese summer time), 1984-01-31, 1992-02-15, 1999-12-30, 2000-02-27,
\* 2024-07-01.
ProbeDays == {2415078, 2433462, 2433524, 2445731, 2448668, 2451543, 2451602, 2460493}

\* Times of the day in ticks since 00:00 UTC: 00:00, 12:00, the last tick
\* before and the first tick of a UTC+9 day (15:00 UTC), the last tick of the
\* UTC day.
ProbeFractions == {0, TPD \div 2, (5 * TPD) \div 8 - 1, (5 * TPD) \div 8, TPD - 1}

ProbeJDs ==
    { [z |-> d + k, f |-> f] : d \in ProbeDays, k \in 0..DaySpan, f \in ProbeFractions }
    \cup { [z |-> 2448640 + k, f |-> TPD \div 2] : k \in 0..CycleSpan }

\* Years whose solar terms are explored.
ProbeYears == {1900, 1984, 2000, 2024}

\* The instants of start-of-spring of the probe years, and the ticks around them.
LichunJDs ==
    { JDAdd(getLichunJD(y), k) : y \in ProbeYears, k \in (0 - TermSpan)..TermSpan }

\* The instants of the twelve node terms of two years, the ticks around them,
\* and the middle of the months between them.
JieJDs ==
    { JDAdd(getSolarTermJD(y, JIE_TERMS[j].name), k) :
        y \in {2000, 2024}, j \in 1..Len(JIE_TERMS),
        k \in ((0 - TermSpan)..TermSpan) \cup {15 * TPD} }

\* Civil dates and times of day (seconds) whose conversion is explored.
CivilYears == {1500, 1582, 1600, 1899, 1900, 1999, 2000, 2024, 2100}

CivilMonthDays ==
    { <<1, 1>>, <<1, 31>>, <<2, 28>>, <<2, 29>>, <<3, 1>>, <<4, 30>>, <<6, 30>>,
      <<7, 31>>, <<10, 15>>, <<12, 31>> }

CivilSeconds == {0, 1, 43199, 43200, 53999, 54000, 86399}

\* Angles, in micro-degrees, given to normalizeDegrees.
ProbeAngles ==
    { k * 90 * DEG + e : k \in (0 - 5)..5, e \in {0 - 1, 0, 1} }

\* Sun longitudes, in micro-degrees, met by the wrapped difference.
ProbeLongitudes ==
    { k * 15 * DEG + e : k \in 0..23, e \in {0, 1} } \cup {360 * DEG - 1}

(***************************************************************************)
(* The caller                                                              *)
(***************************************************************************)

NoValue == [none |-> TRUE]

Init ==
    /\ op = "idle"
    /\ args = NoValue
    /\ ret = NoValue

CallDateToJD ==
    /\ op = "idle"
    /\ \E y \in CivilYears, md \in CivilMonthDays, sec \in CivilSeconds :
          LET date == DateUTC(y, md[1], md[2], 0, 0, sec)
          IN  /\ op' = "dateToJD"
              /\ args' = [date |-> date]
              /\ ret' = [jd |-> dateToJD(date),
                         back |-> jdToDate(dateToJD(date)),
                         nextSecond |-> dateToJD(DateAddSeconds(date, 1)),
                         nextDay |-> dateToJD(DateAddSeconds(date, 86400))]

CallNormalizeDegrees ==
    /\ op = "idle"
    /\ \E deg \in ProbeAngles :
          /\ op' = "normalizeDegrees"
          /\ args' = [deg |-> deg]
          /\ ret' = normalizeDegrees(deg)

CallGetSunLongitude ==
    /\ op = "idle"
    /\ \E jd \in ProbeJDs :
          /\ op' = "getSunLongitude"
          /\ args' = [jd |-> jd]
          /\ ret' = getSunLongitude(jd)

\* The first lines of findSolarTermJD, at a start whose sun longitude is lon
CallWrapDiff ==
    /\ op = "idle"
    /\ \E k \in 1..Len(SOLAR_TERMS_FULL), lon \in ProbeLongitudes :
          /\ op' = "wrapDiff"
          /\ args' = [targetLongitude |-> SOLAR_TERMS_FULL[k].longitude * DEG,
                      currentLon |-> lon]
          /\ ret' = WrapDiff(SOLAR_TERMS_FULL[k].longitude * DEG - lon)

CallCalcDayPillar ==
    /\ op = "idle"
    /\ \E jd \in ProbeJDs, zone \in HostZones :
          /\ op' = "calcDayPillar"
          /\ args' = [jd |-> jd, zone |-> zone]
          /\ ret' = calcDayPillar(jd, zone)

CallCalcYearPillar ==
    /\ op = "idle"
    /\ \E jd \in ProbeJDs \cup LichunJDs :
          /\ op' = "calcYearPillar"
          /\ args' = [jd |-> jd]
          /\ ret' = calcYearPillar(jd)

CallGetPreviousJie ==
    /\ op = "idle"
    /\ \E jd \in ProbeJDs \cup JieJDs :
          /\ op' = "getPreviousJie"
          /\ args' = [jd |-> jd]
          /\ ret' = getPreviousJie(jd)

CallCalcMonthPillar ==
    /\ op = "idle"
    /\ \E jd \in JieJDs, yearStemIndex \in 0..9 :
          /\ op' = "calcMonthPillar"
          /\ args' = [jd |-> jd, yearStemIndex |-> yearStemIndex]
          /\ ret' = calcMonthPillar(jd, yearStemIndex)

CallCalcHourPillar ==
    /\ op = "idle"
    /\ \E hours \in 0..23, minutes \in {0, 30, 59}, dayStemIndex \in 0..9,
          use23Switch \in BOOLEAN :
          /\ op' = "calcHourPillar"
          /\ args' = [localDate |-> [hours |-> hours, minutes |-> minutes],
                      dayStemIndex |-> dayStemIndex, use23Switch |-> use23Switch]
          /\ ret' = calcHourPillar([hours |-> hours, minutes |-> minutes],
                                   dayStemIndex, use23Switch)

CallGetHiddenStems ==
    /\ op = "idle"
    /\ \E b \in 1..Len(BRANCHES), k \in 0..HiddenDaySpan, e \in {0 - 1, 0, 1} :
          /\ k * TPD + e >= 0
          /\ op' = "getHiddenStems"
          /\ args' = [branch |-> BRANCHES[b], daysFromJieqi |-> k * TPD + e]
          /\ ret' = getHiddenStems(BRANCHES[b], k * TPD + e)

CallCalcVoidBranches ==
    /\ op = "idle"
    /\ \E jd \in ProbeJDs, zone \in HostZones :
          LET dayPillar == calcDayPillar(jd, zone)
          IN  /\ op' = "calcVoidBranches"
              /\ args' = [dayPillar |-> dayPillar]
              /\ ret' = calcVoidBranches(dayPillar)

Return ==
    /\ op # "idle"
    /\ op' = "idle"
    /\ args' = NoValue
    /\ ret' = NoValue

Next ==
    \/ CallDateToJD
    \/ CallNormalizeDegrees
    \/ CallGetSunLongitude
    \/ CallWrapDiff
    \/ CallCalcDayPillar
    \/ CallCalcYearPillar
    \/ CallGetPreviousJie
    \/ CallCalcMonthPillar
    \/ CallCalcHourPillar
    \/ CallGetHiddenStems
    \/ CallCalcVoidBranches
    \/ Return

Spec == Init /\ [][Next]_vars

(***************************************************************************)
(* Properties                                                              *)
(***************************************************************************)

\* Day number (days since 1970-01-01) of the calendar date of jd at UTC+9
LocalDayNumber(jd) == jd.z - 2440588 + (jd.f + (3 * TPD) \div 8) \div TPD

\* Civil year of jd in UTC
CivilYear(jd) == DateFromDay(jd.z - 2440588).year

\* C1: for every instant jd, calcDayPillar(jd) returns
\* sexagenaryIndex = (59 + d) mod 60 in [0,60), d being the signed number of
\* whole calendar days from the UTC+9 date 1992-02-17 to the UTC+9 date of jd,
\* with the stem and the branch of that index (index 59, stem 9, branch 11 on
\* 1992-02-17 itself).
C1_DayIndexFromLocalDate ==
    op = "calcDayPillar" =>
        LET d == LocalDayNumber(args.jd) - MakeDay(1992, 2, 17)
        IN  /\ ret.sexagenaryIndex = (59 + d) % 60
            /\ ret.stemIndex = ((59 + d) % 60) % 10
            /\ ret.branchIndex = ((59 + d) % 60) % 12

\* C1's case against the code: 1950-07-01 21:00 at UTC+9, on a host in
\* Asia/Tokyo, whose local midnight that day is under summer time.  The date
\* is 15206 days before the anchor, (59 - 15206) mod 60 = 33; the host's
\* midnights are 15206 days and one hour apart, the floor gives -15207 and
\* the index 32.
C1_SummerTimeDay ==
    /\ op = "calcDayPillar"
    /\ args.zone.name = "Asia/Tokyo"
    /\ args.jd = [z |-> 2433464, f |-> TPD \div 2]
    /\ LocalDayNumber(args.jd) - MakeDay(1992, 2, 17) = 0 - 15206
    /\ ret.sexagenaryIndex = 32

\* C2: the pillar derived from a sexagenary index i in [0,60), as calcDayPillar
\* and calcYearPillar derive it, has stemIndex = i mod 10 and
\* branchIndex = i mod 12; no other index of [0,60) gives the same pair, and
\* the pairs of the 60 indices are exactly the pairs (s, b) with s in [0,10),
\* b in [0,12) and s mod 2 = b mod 2.
C2_SexagenaryBijection ==
    op \in {"calcDayPillar", "calcYearPillar"} =>
        LET i == IF op = "calcDayPillar" THEN ret.sexagenaryIndex
                 ELSE (ret.year - 1984) % 60
        IN  /\ i \in 0..59
            /\ ret.stemIndex = i % 10
            /\ ret.branchIndex = i % 12
            /\ ret.stem = STEMS[(i % 10) + 1]
            /\ ret.branch = BRANCHES[(i % 12) + 1]
            /\ \A j \in 0..59 :
                  Pillar(j).stemIndex = ret.stemIndex
                  /\ Pillar(j).branchIndex = ret.branchIndex => j = i
            /\ { <<Pillar(j).stemIndex, Pillar(j).branchIndex>> : j \in 0..59 }
               = { sb \in (0..9) \X (0..11) : sb[1] % 2 = sb[2] % 2 }

\* C2's case: an index whose residues modulo 10 and modulo 12 differ
C2_IndexEleven ==
    /\ op = "calcDayPillar"
    /\ ret.sexagenaryIndex = 11
    /\ ret.stemIndex = 1
    /\ ret.branchIndex = 11

\* C3: calcYearPillar(jd) takes the civil year Y of jd and uses Y - 1 exactly
\* when jd is strictly before the start-of-spring instant computed for Y,
\* otherwise Y; the stem and the branch are ((Yeff - 1984) mod 60) mod 10 and
\* mod 12, the mod non-negative also for years before 1984.
C3_YearSwitchesAtLichun ==
    op = "calcYearPillar" =>
        LET Y    == CivilYear(args.jd)
            Yeff == IF JDLess(args.jd, getSolarTermJD(Y, "lichun")) THEN Y - 1 ELSE Y
        IN  /\ ret.year = Yeff
            /\ ret.stemIndex = ((Yeff - 1984) % 60) % 10
            /\ ret.branchIndex = ((Yeff - 1984) % 60) % 12
            /\ ret.stem = STEMS[ret.stemIndex + 1]
            /\ ret.branch = BRANCHES[ret.branchIndex + 1]

\* C3's case: the start-of-spring instant of 2000 belongs to 2000 (Geng chen)
\* while its civil year has an earlier part that does not
C3_AtLichun ==
    /\ op = "calcYearPillar"
    /\ args.jd = getLichunJD(2000)
    /\ CivilYear(args.jd) = 2000
    /\ ret.year = 2000
    /\ ret.stemIndex = 6
    /\ ret.branchIndex = 4

\* The node term's ordinal counted from start-of-spring = 1, from the
\* longitude SOLAR_TERMS_FULL gives the term
JieOrdinal(name) ==
    ((SOLAR_TERMS_FULL[TermIndex(name)].longitude - 315) % 360) \div 30 + 1

\* The 12 node terms of the years Y - 1, Y and Y + 1 with their instants
JieCandidates(Y) ==
    { [name |-> JIE_TERMS[j].name, jd |-> getSolarTermJD(y, JIE_TERMS[j].name)] :
        y \in (Y - 1)..(Y + 1), j \in 1..Len(JIE_TERMS) }

\* name, instant and elapsed ticks are those of the latest candidate at or
\* before jd, and the elapsed time is shorter than the gap to every later one
IsPreviousJie(jd, candidates, name, jieJD, daysFromJieqi) ==
    /\ [name |-> name, jd |-> jieJD] \in candidates
    /\ JDLeq(jieJD, jd)
    /\ \A c \in candidates : JDLeq(c.jd, jd) => JDLeq(c.jd, jieJD)
    /\ daysFromJieqi = JDDiff(jd, jieJD)
    /\ daysFromJieqi >= 0
    /\ \E c \in candidates : JDLess(jd, c.jd)
    /\ \A c \in candidates : JDLess(jd, c.jd) => daysFromJieqi < JDDiff(c.jd, jieJD)

\* C4: getPreviousJie(jd), and through it calcMonthPillar, selects the node
\* term whose computed instant is the maximum, over the 12 node terms of the
\* civil years Y - 1, Y and Y + 1, of the instants <= jd; the month branch is
\* that term's (start-of-spring 2, ..., daxue 0, xiaohan 1), and daysFromJieqi
\* is jd minus that instant, >= 0 and smaller than the gap to the next node
\* term.
C4_PreviousJieIsLatest ==
    /\ op = "getPreviousJie" =>
          /\ IsPreviousJie(args.jd, JieCandidates(CivilYear(args.jd)),
                           ret.name, ret.jd, ret.daysFromJieqi)
          /\ ret.branchIndex = (JieOrdinal(ret.name) + 1) % 12
    /\ op = "calcMonthPillar" =>
          /\ IsPreviousJie(args.jd, JieCandidates(CivilYear(args.jd)),
                           ret.jieName, ret.jieJD, ret.daysFromJieqi)
          /\ ret.branchIndex = (JieOrdinal(ret.jieName) + 1) % 12
          /\ ret.branch = BRANCHES[ret.branchIndex + 1]

\* C4's case: an instant that is itself a node term's (daxue of 2024, branch 0)
C4_AtNodeTerm ==
    /\ op = "getPreviousJie"
    /\ args.jd = getSolarTermJD(2024, "daxue")
    /\ ret.name = "daxue"
    /\ ret.branchIndex = 0
    /\ ret.daysFromJieqi = 0

\* C5: calcMonthPillar returns stemIndex =
\* (MONTH_STEM_START[yearStemIndex] + (monthNum - 1)) mod 10, monthNum in 1..12
\* being the node term's ordinal from start-of-spring = 1 and the table taking
\* year stems 0/5 to 2, 1/6 to 4, 2/7 to 6, 3/8 to 8, 4/9 to 0; the result is
\* in [0,10).
C5_MonthStem ==
    op = "calcMonthPillar" =>
        /\ ret.monthNum = JieOrdinal(ret.jieName)
        /\ ret.monthNum \in 1..12
        /\ ret.stemIndex =
              (((2 * (args.yearStemIndex % 5) + 2) % 10) + (ret.monthNum - 1)) % 10
        /\ ret.stemIndex \in 0..9
        /\ ret.stem = STEMS[ret.stemIndex + 1]

\* C5's case: the twelfth month of a year of stem 4 (base 0, stem 11 mod 10)
C5_TwelfthMonth ==
    /\ op = "calcMonthPillar"
    /\ args.yearStemIndex = 4
    /\ ret.jieName = "xiaohan"
    /\ ret.monthNum = 12
    /\ ret.stemIndex = 1

\* C6: calcHourPillar(localDate, dayStemIndex, use23Switch): with use23Switch,
\* hour 23 gives branch 0 and the effective day stem (dayStemIndex + 1) mod 10,
\* hour 0 gives branch 0 and the effective day stem dayStemIndex, every other
\* hour h gives branch floor((h + 1) / 2) with no borrow; without it the
\* branch is floor((h + 1) / 2) mod 12 with no borrow.  branchIndex is in
\* [0,12) and stemIndex = (HOUR_STEM_START[effective day stem] + branchIndex)
\* mod 10, the table taking 0/5 to 0, 1/6 to 2, 2/7 to 4, 3/8 to 6, 4/9 to 8;
\* so, for one dayStemIndex, 23:30 and 00:30 both give branch zi on different
\* stem bases.
C6_HourPillar ==
    op = "calcHourPillar" =>
        LET h      == args.localDate.hours
            borrow == args.use23Switch /\ h = 23
            branch == ((h + 1) \div 2) % 12
            eff    == IF borrow THEN (args.dayStemIndex + 1) % 10 ELSE args.dayStemIndex
        IN  /\ ret.branchIndex = branch
            /\ ret.branchIndex \in 0..11
            /\ h \in {0, 23} => ret.branchIndex = 0
            /\ ret.dayAdjusted = borrow
            /\ ret.stemIndex = (2 * (eff % 5) + ret.branchIndex) % 10
            /\ ret.stem = STEMS[ret.stemIndex + 1]
            /\ ret.branch = BRANCHES[ret.branchIndex + 1]
            /\ borrow =>
                  LET after == calcHourPillar([hours |-> 0, minutes |-> 30],
                                              args.dayStemIndex, TRUE)
                  IN  /\ after.branchIndex = ret.branchIndex
                      /\ after.stemIndex # ret.stemIndex

\* C6's case: 23:30 with the switch on a day of stem 9 borrows stem 0
C6_LateZiHour ==
    /\ op = "calcHourPillar"
    /\ args.localDate = [hours |-> 23, minutes |-> 30]
    /\ args.dayStemIndex = 9
    /\ args.use23Switch
    /\ ret.dayAdjusted
    /\ ret.branchIndex = 0
    /\ ret.stemIndex = 0

\* C7: for a day pillar of sexagenaryIndex i in [0,60), calcVoidBranches
\* returns entry floor(i / 10) of the table [xu hai, shen you, wu wei,
\* chen si, yin mao, zi chou]; the group index is in [0,6), neither returned
\* branch is the branch of a pillar of that group of 10 indices, and index 59
\* gives zi and chou.
C7_VoidBranches ==
    op = "calcVoidBranches" =>
        LET i == args.dayPillar.sexagenaryIndex
            g == i \div 10
        IN  /\ g \in 0..5
            /\ ret.branches = << BRANCHES[((10 - 2 * g) % 12) + 1],
                                 BRANCHES[((11 - 2 * g) % 12) + 1] >>
            /\ \A j \in (10 * g)..(10 * g + 9) :
                  /\ BRANCHES[(j % 12) + 1] # ret.branches[1]
                  /\ BRANCHES[(j % 12) + 1] # ret.branches[2]
            /\ i = 59 => ret.branches = <<"zi", "chou">>

\* C7's case: index 59
C7_LastIndex ==
    /\ op = "calcVoidBranches"
    /\ args.dayPillar.sexagenaryIndex = 59
    /\ ret.branches = <<"zi", "chou">>

\* Days of the first i spans
RECURSIVE SpanTotal(_, _)
SpanTotal(days, i) == IF i = 0 THEN 0 ELSE SpanTotal(days, i - 1) + days[i]

\* C8: for each of the 12 branches and every elapsed time d >= 0,
\* getHiddenStems(branch, d) returns as mainStem the stem of the first span
\* whose cumulative day total is strictly greater than d, with the phase
\* residual when that is the first span, proper when it is the last one and
\* middle otherwise; when d is at least the sum of all spans it returns the
\* last stem with the phase proper.  The spans of every branch sum to 30 days.
C8_HiddenStems ==
    op = "getHiddenStems" =>
        LET detail == HIDDEN_STEMS_DETAIL[args.branch]
            n      == Len(detail.days)
            d      == args.daysFromJieqi
            Over   == { i \in 1..n : d < SpanTotal(detail.days, i) * TPD }
        IN  /\ Len(detail.stems) = n
            /\ SpanTotal(detail.days, n) = 30
            /\ ret.allStems = detail.stems
            /\ Over = {} =>
                  /\ d >= 30 * TPD
                  /\ ret.mainStem = detail.stems[n]
                  /\ ret.phase = "proper"
            /\ \A i \in Over :
                  (\A j \in Over : i <= j) =>
                      /\ ret.mainStem = detail.stems[i]
                      /\ ret.phase = IF i = 1 THEN "residual"
                                     ELSE IF i = n THEN "proper" ELSE "middle"

\* C8's case: the instant a first span ends belongs to the next one
C8_SpanEnd ==
    /\ op = "getHiddenStems"
    /\ args.branch = "chou"
    /\ args.daysFromJieqi = 9 * TPD
    /\ ret.mainStem = "Xin"
    /\ ret.phase = "middle"

\* later - earlier in seconds, for Dates less than 24000 days apart
SecondsBetween(earlier, later) ==
    (later.dn - earlier.dn) * 86400 + (later.sod - earlier.sod)

\* C9: for every proleptic Gregorian UTC civil date-time t of whole seconds,
\* jdToDate(dateToJD(t)) equals t to within 1 second, and dateToJD is strictly
\* increasing in t, one civil day later giving exactly +1.
C9_RoundTripWithinOneSecond ==
    op = "dateToJD" =>
        /\ Abs(SecondsBetween(args.date, ret.back)) <= 1
        /\ JDLess(ret.jd, ret.nextSecond)
        /\ ret.nextDay = JDAdd(ret.jd, TPD)

\* C9's case against the code: 1500-03-01 00:00:00 UTC comes back as
\* 1500-02-20 00:00:00, the date of the Julian calendar (jdToDate leaves out
\* the Gregorian correction below day 2299161).
C9_BeforeCutover ==
    /\ op = "dateToJD"
    /\ args.date = DateUTC(1500, 3, 1, 0, 0, 0)
    /\ ret.jd.z < 2299161
    /\ ret.back = DateUTC(1500, 2, 20, 0, 0, 0)

\* C10: every value getSunLongitude returns, and every value normalizeDegrees
\* returns (negative inputs included), lies in [0,360); for every target and
\* current longitude in [0,360) the wrapped difference of the root finders
\* lies in (-180,180], never exactly -180.
C10_AngleRanges ==
    /\ op \in {"getSunLongitude", "normalizeDegrees"} =>
          ret >= 0 /\ ret < 360 * DEG
    /\ op = "wrapDiff" =>
          ret > 0 - 180 * DEG /\ ret <= 180 * DEG

\* C10's case against the code: target 0 and current longitude 180 give -180,
\* which neither test of the wrap changes.
C10_HalfTurnBehind ==
    /\ op = "wrapDiff"
    /\ args.targetLongitude = 0
    /\ args.currentLon = 180 * DEG
    /\ ret = 0 - 180 * DEG

(***************************************************************************)
(* The caller of the solar-term search                                     *)
(***************************************************************************)

\* Years whose 24 solar terms are searched.
SearchYears == 1900..2100

\* Names given to getSolarTermJD: the 24 of the table and names not in it
\* (empty, another spelling, a branch, a stem).
TermNames == { SOLAR_TERMS_FULL[k].name : k \in 1..Len(SOLAR_TERMS_FULL) }

UnknownNames == {"", "Lichun", "zi", "Jia"}

CallGetSolarTermJD ==
    /\ op = "idle"
    /\ \E year \in SearchYears, termName \in TermNames \cup UnknownNames :
          /\ op' = "getSolarTermJD"
          /\ args' = [year |-> year, termName |-> termName]
          /\ ret' = getSolarTermJD(year, termName)

TermsNext ==
    \/ CallGetSolarTermJD
    \/ Return

SpecTerms == Init /\ [][TermsNext]_vars

\* C11: for each of the 24 term longitudes and every year from 1900 to 2100,
\* the search of getSolarTermJD leaves its loop through the tolerance test
\* |delta| < 0.00001 degrees within the 30 iterations, and the sun longitude at
\* the returned instant differs from the target by less than 0.001 degrees,
\* the difference wrapped across the 0/360 seam.
C11_SearchConverges ==
    op = "getSolarTermJD" /\ args.termName \in TermNames =>
        LET k      == TermIndex(args.termName)
            target == SOLAR_TERMS_FULL[k].longitude * DEG
            run    == findSolarTermRun(target, getSolarTermApproxJD(args.year, k))
        IN  /\ run.converged
            /\ run.evaluations <= 30
            /\ ret = run.jd
            /\ Abs(WrapDiff(target - getSunLongitude(ret))) < 1000

\* C11's case: the term of longitude 0, whose search starts on the other side
\* of the seam (16 March, longitude about 355)
C11_AcrossTheSeam ==
    /\ op = "getSolarTermJD"
    /\ args.termName = "chunfen"
    /\ args.year = 1900
    /\ getSunLongitude(getSolarTermApproxJD(1900, 6)) > 350 * DEG
    /\ getSunLongitude(ret) \in (0 .. 1000) \cup ((360 * DEG - 1000) .. (360 * DEG))

\* C18: getSolarTermJD returns null for every termName that is not one of the
\* 24 names of SOLAR_TERMS_FULL, without evaluating the sun's longitude once
\* and without the instant of any other term in its place; for each of the
\* 24 names it returns a number (a Julian Date).
C18_UnknownTermIsNull ==
    op = "getSolarTermJD" =>
        IF args.termName \in TermNames
        THEN /\ ret # Null
             /\ DOMAIN ret = {"z", "f"}
             /\ ret.z \in Nat /\ ret.f \in 0..(TPD - 1)
             /\ getSolarTermEvaluations(args.year, args.termName) >= 1
        ELSE /\ ret = Null
             /\ getSolarTermEvaluations(args.year, args.termName) = 0

\* A name that differs from a table name only in its capital letter is asked
\* for and null comes back
C18_NearMissName ==
    /\ op = "getSolarTermJD"
    /\ args.termName = "Lichun"
    /\ args.year = 2000
    /\ ret = Null

(**************************************************************************)
(* Kyusei: the nine-star engine.  Its Julian Dates are numbers; a whole    *)
(* one (noon) is written as an integer and any other as a record [z, f]   *)
(* like the Julian Dates above.                                            *)
(**************************************************************************)

\* Kyusei.MONTH_START
MONTH_START == [s \in 1..9 |-> <<8, 2, 5>>[((s - 1) % 3) + 1]]

\* Kyusei.BASE_JD
BASE_JD == 2445731

\* Kyusei.calcJD(year, month, day) with hour = 12: a whole number
calcJD(year, month, day) ==
    LET a == (14 - month) \div 12
        y == year + 4800 - a
        m == month + 12 * a - 3
    IN  day + (153 * m + 2) \div 5 + 365 * y + y \div 4 - y \div 100 + y \div 400 - 32045

\* The whole Julian Date n (noon of day n) as a record
NoonJD(n) == [z |-> n, f |-> TPD \div 2]

\* Math.floor(jd) of a Julian Date record
FloorJD(jd) == IF jd.f >= TPD \div 2 THEN jd.z ELSE jd.z - 1

\* jd - Math.floor(jd), in ticks
FractionJD(jd) == IF jd.f >= TPD \div 2 THEN jd.f - TPD \div 2 ELSE jd.f + TPD \div 2

\* Kyusei.jdToGregorian, given b and c
jdToGregorianC(b, c) ==
    LET d     == (1461 * c) \div 4
        e     == (10000 * (b - d)) \div 306001
        day   == b - d - (306001 * e) \div 10000
        month == IF e < 14 THEN e - 1 ELSE e - 13
        year  == IF month > 2 THEN c - 4716 ELSE c - 4715
    IN  [year |-> year, month |-> month, day |-> day]

\* Kyusei.jdToGregorian, given z = Math.floor(jd + 0.5) and a
jdToGregorianA(z, a) ==
    jdToGregorianC(z + 1 + a - a \div 4 + 1524,
                   (20 * (z + 1 + a - a \div 4 + 1524) - 2442) \div 7305)

\* Kyusei.jdToGregorian(jd)
jdToGregorian(jd) == jdToGregorianA(jd.z, (4 * jd.z - 7468865) \div 146097)

\* Kyusei.calcSunLongitude(jd), in micro-degrees: L0 + C brought into [0, 360)
calcSunLongitude(jd) ==
    getSunLongitudeAt(jd.z - 2451545, jd.f - TPD \div 2, julianCentury(jd))

\* tolerance = 0.0001 day of findSolarLongitudeDate: a width in whole ticks
\* exceeds it exactly when it exceeds this many ticks
tolerance == TPD \div 10000

\* approxDay = (targetLon / 360) * 365.25 days, split into whole days and ticks
approxDayWhole(targetLon) == (targetLon * 1461) \div 1440

approxDayTicks(targetLon) == (((targetLon * 1461) % 1440) * TPD) \div 1440

\* jdLow of findSolarLongitudeDate
findSolarLongitudeLow(targetLon, year) ==
    IF targetLon = 270 THEN NoonJD(calcJD(year, 12, 15))
    ELSE IF targetLon = 90 THEN NoonJD(calcJD(year, 6, 15))
    ELSE JDAdd(NoonJD(calcJD(year, 1, 1) + approxDayWhole(targetLon) - 15),
               approxDayTicks(targetLon))

\* jdHigh of findSolarLongitudeDate
findSolarLongitudeHigh(targetLon, year) ==
    IF targetLon = 270 THEN NoonJD(calcJD(year, 12, 28))
    ELSE IF targetLon = 90 THEN NoonJD(calcJD(year, 6, 28))
    ELSE JDAdd(NoonJD(calcJD(year, 1, 1) + approxDayWhole(targetLon) + 15),
               approxDayTicks(targetLon))

\* diff = lonMid - targetLon, brought back across the 0/360 seam
SeamDiffLow(diff) == IF diff < -180 * DEG THEN diff + 360 * DEG ELSE diff

SeamDiff(diff) == SeamDiffLow(IF diff > 180 * DEG THEN diff - 360 * DEG ELSE diff)

\* One halving of the bracket: if (diff < 0) jdLow = jdMid else jdHigh = jdMid
findSolarLongitudeHalve(jdLow, jdHigh, jdMid, diff) ==
    IF diff < 0
    THEN [jdLow |-> jdMid, jdHigh |-> jdHigh]
    ELSE [jdLow |-> jdLow, jdHigh |-> jdMid]

RECURSIVE findSolarLongitudeLoop(_, _)
\* The bracket, given jdMid
findSolarLongitudeStep(targetLon, bracket, jdMid) ==
    findSolarLongitudeLoop(targetLon,
        findSolarLongitudeHalve(bracket.jdLow, bracket.jdHigh, jdMid,
            SeamDiff(calcSunLongitude(jdMid) - targetLon * DEG)))

\* while (jdHigh - jdLow > tolerance) { ... }: the bracket it ends with
findSolarLongitudeLoop(targetLon, bracket) ==
    IF JDDiff(bracket.jdHigh, bracket.jdLow) > tolerance
    THEN findSolarLongitudeStep(targetLon, bracket,
             JDAdd(bracket.jdLow, JDDiff(bracket.jdHigh, bracket.jdLow) \div 2))
    ELSE bracket

\* (jdLow + jdHigh) / 2
MidJD(bracket) == JDAdd(bracket.jdLow, JDDiff(bracket.jdHigh, bracket.jdLow) \div 2)

\* Kyusei.findSolarLongitudeDate(targetLon, year)
findSolarLongitudeDate(targetLon, year) ==
    MidJD(findSolarLongitudeLoop(targetLon,
              [jdLow  |-> findSolarLongitudeLow(targetLon, year),
               jdHigh |-> findSolarLongitudeHigh(targetLon, year)]))

\* Kyusei.calcWinterSolstice(year)
calcWinterSolstice(year) == findSolarLongitudeDate(270, year)

\* Kyusei.calcSummerSolstice(year)
calcSummerSolstice(year) == findSolarLongitudeDate(90, year)

\* solarTermsLon of calcSetsuiriDay
solarTermsLon == <<285, 315, 345, 15, 45, 75, 105, 135, 165, 195, 225, 255>>

\* Kyusei.calcSetsuiriDay(year, month)
calcSetsuiriDay(year, month) ==
    jdToGregorian(findSolarLongitudeDate(solarTermsLon[month], year)).day

\* getKigakuMonth, given the node-entry day
getKigakuMonthOn(month, day, setsuiriDay) ==
    IF day < setsuiriDay
    THEN (IF month = 1 THEN 12 ELSE month - 1)
    ELSE month

\* Kyusei.getKigakuMonth(year, month, day)
getKigakuMonth(year, month, day) ==
    getKigakuMonthOn(month, day, calcSetsuiriDay(year, month))

RECURSIVE DigitSum(_)
\* n.toString().split('').reduce((sum, d) => sum + parseInt(d), 0)
DigitSum(n) == IF n < 10 THEN n ELSE (n % 10) + DigitSum(n \div 10)

RECURSIVE DigitRoot(_)
\* while (digitSum > 9) digitSum = the sum of its digits
DigitRoot(digitSum) == IF digitSum > 9 THEN DigitRoot(DigitSum(digitSum)) ELSE digitSum

\* calcYearStar without the step back into 1..9
calcYearStarUnwrapped(year) == 11 - DigitRoot(DigitSum(year))

\* Kyusei.calcYearStar(year)
calcYearStar(year) ==
    LET star == 11 - DigitRoot(DigitSum(year))
    IN  IF star > 9 THEN star - 9 ELSE star

RECURSIVE StarWrapUp(_)
\* while (star <= 0) star += 9
StarWrapUp(star) == IF star <= 0 THEN StarWrapUp(star + 9) ELSE star

RECURSIVE StarWrapDown(_)
\* while (star > 9) star -= 9
StarWrapDown(star) == IF star > 9 THEN StarWrapDown(star - 9) ELSE star

\* calcMonthStar with January counted as one month before February
calcMonthStarSigned(yearStar, kigakuMonth) ==
    StarWrapDown(StarWrapUp(
        (IF yearStar \in DOMAIN MONTH_START THEN MONTH_START[yearStar] ELSE 5)
        - (kigakuMonth - 2)))

\* Kyusei.calcMonthStar(yearStar, kigakuMonth)
calcMonthStar(yearStar, kigakuMonth) ==
    LET februaryStart == IF yearStar \in DOMAIN MONTH_START THEN MONTH_START[yearStar] ELSE 5
        monthOffset   == IF kigakuMonth - 2 < 0 THEN kigakuMonth - 2 + 12 ELSE kigakuMonth - 2
    IN  StarWrapDown(StarWrapUp(februaryStart - monthOffset))

\* NearestCycleDay with the day behind always taken
NearestCycleDayBehind(jd, behind) == JDAdd(NoonJD(FloorJD(jd)), 0 - behind)

\* The nearer of the two days of the wanted sexagenary index around jd, the
\* previous one being behind ticks behind jd:
\*   daysToNext = behind === 0 ? 0 : 60 - behind;
\*   daysToNext <= behind ? Math.floor(jd) + daysToNext : Math.floor(jd) - behind
NearestCycleDay(jd, behind) ==
    IF (IF behind = 0 THEN 0 ELSE 60 * TPD - behind) <= behind
    THEN JDAdd(NoonJD(FloorJD(jd)), IF behind = 0 THEN 0 ELSE 60 * TPD - behind)
    ELSE JDAdd(NoonJD(FloorJD(jd)), 0 - behind)

\* calcYotonStart, given the winter solstice
calcYotonStartAt(winterSolsticeJD) ==
    NearestCycleDay(winterSolsticeJD,
        ((FloorJD(winterSolsticeJD) - BASE_JD) % 60) * TPD + FractionJD(winterSolsticeJD))

\* Kyusei.calcYotonStart(year)
calcYotonStart(year) == calcYotonStartAt(calcWinterSolstice(year))

\* calcIntonStart, given the summer solstice
calcIntonStartAt(summerSolsticeJD) ==
    NearestCycleDay(summerSolsticeJD,
        ((FloorJD(summerSolsticeJD) - BASE_JD - 30) % 60) * TPD + FractionJD(summerSolsticeJD))

\* Kyusei.calcIntonStart(year)
calcIntonStart(year) == calcIntonStartAt(calcSummerSolstice(year))

\* isYoton of calcDayStar with the year's own winter start left out
isYotonWithoutCurrent(jdTarget, yotonStartCurrent, intonStartCurrent, yotonStartPrev) ==
    IF JDLeq(intonStartCurrent, jdTarget) THEN FALSE
    ELSE JDLeq(yotonStartPrev, jdTarget)

\* isYoton of calcDayStar
isYoton(jdTarget, yotonStartCurrent, intonStartCurrent, yotonStartPrev) ==
    IF JDLeq(yotonStartCurrent, jdTarget) THEN TRUE
    ELSE IF JDLeq(intonStartCurrent, jdTarget) THEN FALSE
    ELSE JDLeq(yotonStartPrev, jdTarget)

\* dayStarNum of calcDayStar counted from 0 in the ascending phase
dayStarNumFromZero(ganzhiIdx, yoton) ==
    IF yoton THEN ganzhiIdx % 9 ELSE 9 - (ganzhiIdx % 9)

\* dayStarNum of calcDayStar
dayStarNum(ganzhiIdx, yoton) ==
    IF yoton THEN (ganzhiIdx % 9) + 1
    ELSE IF 9 - (ganzhiIdx % 9) <= 0 THEN 9 - (ganzhiIdx % 9) + 9
    ELSE 9 - (ganzhiIdx % 9)

\* calcDayStar, given jdTarget and the three starts
calcDayStarIn(jdTarget, yotonStartCurrent, intonStartCurrent, yotonStartPrev) ==
    [dayStarNum |-> dayStarNum((jdTarget - BASE_JD) % 60,
                       isYoton(NoonJD(jdTarget), yotonStartCurrent, intonStartCurrent,
                               yotonStartPrev)),
     isYoton |-> isYoton(NoonJD(jdTarget), yotonStartCurrent, intonStartCurrent,
                         yotonStartPrev),
     yotonStartCurrent |-> yotonStartCurrent,
     intonStartCurrent |-> intonStartCurrent]

\* Kyusei.calcDayStar(year, month, day)
calcDayStar(year, month, day) ==
    calcDayStarIn(calcJD(year, month, day), calcYotonStart(year), calcIntonStart(year),
                  calcYotonStart(year - 1))

(**************************************************************************)
(* The caller of the nine-star engine                                      *)
(**************************************************************************)

\* The longitudes the engine asks findSolarLongitudeDate for: the two
\* solstices and the twelve of calcSetsuiriDay (315 is the year boundary too)
KyuseiLongitudes == {270, 90} \cup { solarTermsLon[m] : m \in 1..12 }

RootYears == 1900..2100

StarYears == 1..9999

BirthYears == 1990..2010

\* The number of days of a civil month
DaysInMonth(year, month) ==
    calcJD(IF month = 12 THEN year + 1 ELSE year, (month % 12) + 1, 1) - calcJD(year, month, 1)

CallFindSolarLongitudeDate ==
    /\ op = "idle"
    /\ \E targetLon \in KyuseiLongitudes, year \in RootYears :
          /\ op' = "findSolarLongitudeDate"
          /\ args' = [targetLon |-> targetLon, year |-> year]
          /\ ret' = findSolarLongitudeDate(targetLon, year)

CallCalcYearStar ==
    /\ op = "idle"
    /\ \E year \in StarYears :
          /\ op' = "calcYearStar"
          /\ args' = [year |-> year]
          /\ ret' = calcYearStar(year)

CallCalcMonthStar ==
    /\ op = "idle"
    /\ \E yearStar \in 1..9, kigakuMonth \in 1..12 :
          /\ op' = "calcMonthStar"
          /\ args' = [yearStar |-> yearStar, kigakuMonth |-> kigakuMonth]
          /\ ret' = calcMonthStar(yearStar, kigakuMonth)

CallGetKigakuMonth ==
    /\ op = "idle"
    /\ \E year \in BirthYears, month \in 1..12 :
          \E day \in 1..DaysInMonth(year, month) :
              /\ op' = "getKigakuMonth"
              /\ args' = [year |-> year, month |-> month, day |-> day]
              /\ ret' = getKigakuMonth(year, month, day)

CallCalcDayStar ==
    /\ op = "idle"
    /\ \E year \in BirthYears, month \in 1..12 :
          \E day \in 1..DaysInMonth(year, month) :
              /\ op' = "calcDayStar"
              /\ args' = [year |-> year, month |-> month, day |-> day]
              /\ ret' = calcDayStar(year, month, day)

StarsNext ==
    \/ CallCalcYearStar
    \/ CallCalcMonthStar
    \/ Return

SpecStars == Init /\ [][StarsNext]_vars

KyuseiNext ==
    \/ CallFindSolarLongitudeDate
    \/ CallGetKigakuMonth
    \/ CallCalcDayStar
    \/ Return

SpecKyusei == Init /\ [][KyuseiNext]_vars

\* C12: for every longitude the nine-star engine asks for and every year, the
\* first bracket of findSolarLongitudeDate contains the instant at which the
\* sun reaches the target (the wrapped difference is negative at jdLow and
\* not negative at jdHigh), and the instant returned has the sun within
\* 0.001 degree of the target and is not within the tolerance of an end of
\* the bracket.
C12_BracketContainsCrossing ==
    op = "findSolarLongitudeDate" =>
        /\ SeamDiff(calcSunLongitude(findSolarLongitudeLow(args.targetLon, args.year))
                    - args.targetLon * DEG) < 0
        /\ SeamDiff(calcSunLongitude(findSolarLongitudeHigh(args.targetLon, args.year))
                    - args.targetLon * DEG) >= 0
        /\ Abs(SeamDiff(calcSunLongitude(ret) - args.targetLon * DEG)) < 1000
        /\ JDDiff(ret, findSolarLongitudeLow(args.targetLon, args.year)) > tolerance
        /\ JDDiff(findSolarLongitudeHigh(args.targetLon, args.year), ret) > tolerance

\* The year boundary (315 degrees) of 2000 is looked for in a bracket that
\* ends on 2 December, and the instant returned is that end of the bracket
C12_YearBoundaryAtBracketEnd ==
    /\ op = "findSolarLongitudeDate"
    /\ args.targetLon = 315
    /\ args.year = 2000
    /\ jdToGregorian(findSolarLongitudeHigh(315, 2000)) = [year |-> 2000, month |-> 12, day |-> 1]
    /\ JDDiff(findSolarLongitudeHigh(315, 2000), ret) <= tolerance
    /\ calcSunLongitude(ret) < 250 * DEG

\* C13: for every year in 1..9999 calcYearStar(year) is 11 - r, less 9 when
\* that exceeds 9, r being the single digit in 1..9 that repeated summing of
\* the decimal digits of the year ends with (the digit of 1..9 congruent to
\* the year modulo 9); the result is an integer in 1..9.
C13_YearStar ==
    op = "calcYearStar" /\ args.year \in 1..9999 =>
        LET r == ((args.year - 1) % 9) + 1
        IN  /\ r = DigitRoot(DigitSum(args.year))
            /\ ret = (IF 11 - r > 9 THEN 11 - r - 9 ELSE 11 - r)
            /\ ret \in 1..9

\* A year whose digits have to be summed twice (1 + 9 + 9 + 9 = 28, 2 + 8 =
\* 10, 1 + 0 = 1) and whose star comes from the step back by 9
C13_SummedTwice ==
    /\ op = "calcYearStar"
    /\ args.year = 1999
    /\ DigitSum(args.year) = 28
    /\ ret = 1

\* C14: for every yearStar in 1..9 and kigaku month m in 1..12
\* calcMonthStar(yearStar, m) is the February start value (8 for the year
\* stars 1, 4, 7; 2 for 2, 5, 8; 5 for 3, 6, 9) less the months gone by
\* since February (m - 2 from February on, 11 for January), brought into
\* 1..9 by whole steps of 9; the result is in 1..9.
C14_MonthStar ==
    op = "calcMonthStar" =>
        LET start   == CASE args.yearStar \in {1, 4, 7} -> 8
                         [] args.yearStar \in {2, 5, 8} -> 2
                         [] args.yearStar \in {3, 6, 9} -> 5
            elapsed == IF args.kigakuMonth >= 2 THEN args.kigakuMonth - 2 ELSE 11
        IN  /\ ret \in 1..9
            /\ (ret - (start - elapsed)) % 9 = 0

\* January of a year whose star is 2: 2 - 11 = -9 is brought up to 9
C14_JanuaryWraps ==
    /\ op = "calcMonthStar"
    /\ args.yearStar = 2
    /\ args.kigakuMonth = 1
    /\ ret = 9

\* The sun reaches the boundary longitude of a civil month during day d of
\* it: it is short of the longitude when the day begins and not when it ends
CrossesOnDay(year, month, d) ==
    /\ SeamDiff(calcSunLongitude([z |-> calcJD(year, month, d), f |-> 0])
                - solarTermsLon[month] * DEG) < 0
    /\ SeamDiff(calcSunLongitude([z |-> calcJD(year, month, d) + 1, f |-> 0])
                - solarTermsLon[month] * DEG) >= 0

\* C15: for every civil date getKigakuMonth returns the month when the day
\* is on or after the day of that month on which the sun reaches the
\* month's boundary longitude (a day between the 3rd and the 9th), and the
\* month before (12 for January) when the day is earlier; the result is in
\* 1..12, and 1-3 February is month 1.
C15_KigakuMonth ==
    op = "getKigakuMonth" =>
        /\ ret \in 1..12
        /\ \E d \in 3..9 :
              /\ CrossesOnDay(args.year, args.month, d)
              /\ ret = IF args.day >= d THEN args.month
                       ELSE IF args.month = 1 THEN 12 ELSE args.month - 1
        /\ (args.month = 2 /\ args.day <= 3 => ret = 1)

\* 3 February 2000, the day before the sun reaches 315 degrees, is given
\* month 2: the node-entry day worked out for February 2000 is the 1st
C15_ThirdOfFebruary ==
    /\ op = "getKigakuMonth"
    /\ args = [year |-> 2000, month |-> 2, day |-> 3]
    /\ CrossesOnDay(2000, 2, 4)
    /\ calcSetsuiriDay(2000, 2) = 1
    /\ ret = 2

\* calcDayStar of the civil day after (year, month, day), given that day
calcDayStarOfDate(date) == calcDayStar(date.year, date.month, date.day)

calcDayStarNextDay(year, month, day) ==
    calcDayStarOfDate(jdToGregorian(NoonJD(calcJD(year, month, day) + 1)))

\* The star one step on in the direction of the phase, wrapping 9 -> 1
\* (ascending) or 1 -> 9 (descending)
StarStep(star, ascending) ==
    IF ascending THEN (star % 9) + 1 ELSE ((star + 7) % 9) + 1

\* (JDN(date) - 2445731) mod 60
SexagenaryDayIndex(year, month, day) == (calcJD(year, month, day) - 2445731) % 60

\* dayStarNum = (idx mod 9) + 1 in the ascending phase and 9 - (idx mod 9)
\* in the descending one, an integer in 1..9
DayStarFormula(idx, result) ==
    /\ result.dayStarNum = IF result.isYoton THEN (idx % 9) + 1 ELSE 9 - (idx % 9)
    /\ result.dayStarNum \in 1..9

AnchorDay(start) == IF FractionJD(start) = 0 THEN FloorJD(start) ELSE FloorJD(start) + 1

\* The phase the claim gives the day number jdTarget of year Y, from the
\* winter anchors of Y and Y - 1 and the summer anchor of Y
AscendingByAnchors(jdTarget, winter, summer, winterPrev) ==
    \/ jdTarget >= winter
    \/ (jdTarget >= winterPrev /\ jdTarget < summer)

\* C17: for every civil date of year Y calcDayStar reports the ascending
\* phase exactly when the date is on or after the winter-solstice anchor of
\* Y, or on or after the winter-solstice anchor of Y - 1 and before the
\* summer-solstice anchor of Y, the anchors being the days of sexagenary
\* index 0 (winter) and 30 (summer) that calcYotonStart and calcIntonStart
\* find; in every other case it reports the descending phase.
C17_PhaseFromAnchors ==
    op = "calcDayStar" =>
        /\ ret.isYoton = AscendingByAnchors(calcJD(args.year, args.month, args.day),
                             AnchorDay(calcYotonStart(args.year)),
                             AnchorDay(calcIntonStart(args.year)),
                             AnchorDay(calcYotonStart(args.year - 1)))
        /\ (AnchorDay(calcYotonStart(args.year)) - BASE_JD) % 60 = 0
        /\ (AnchorDay(calcIntonStart(args.year)) - BASE_JD) % 60 = 30

\* A day of January that comes before the winter anchor of the year before
\* and is reported as descending
C17_BeforePreviousWinterAnchor ==
    /\ op = "calcDayStar"
    /\ args.month = 1
    /\ calcJD(args.year, args.month, args.day) < AnchorDay(calcYotonStart(args.year - 1))
    /\ ~ret.isYoton

(**************************************************************************)
(* SolarTermEngine: the four pillars and their hidden stems                *)
(**************************************************************************)

\* new Date(year, month - 1, day, hours, minutes) on a host configured with
\* zone: its getTime() as a Date, its getHours() and its getMinutes()
LocalDate(zone, year, month, day, hours, minutes) ==
    [time    |-> [dn  |-> (LocalMidnight(zone, year, month, day) + hours * 60 + minutes)
                              \div 1440,
                  sod |-> ((LocalMidnight(zone, year, month, day) + hours * 60 + minutes)
                              % 1440) * 60],
     hours   |-> hours,
     minutes |-> minutes]

\* calcFourPillars with the month number in place of the month branch
calcFourPillarsDayMonthNum(localDate, use23Switch, jd, yearPillar, monthPillar, dayPillar) ==
    [year  |-> yearPillar,
     month |-> [monthPillar EXCEPT !.branchIndex = monthPillar.monthNum],
     day   |-> dayPillar,
     hour  |-> calcHourPillar(localDate, dayPillar.stemIndex, use23Switch),
     jd    |-> jd,
     use23Switch |-> use23Switch]

\* calcFourPillars from the day pillar on
calcFourPillarsDay(localDate, use23Switch, jd, yearPillar, monthPillar, dayPillar) ==
    [year  |-> yearPillar,
     month |-> monthPillar,
     day   |-> dayPillar,
     hour  |-> calcHourPillar(localDate, dayPillar.stemIndex, use23Switch),
     jd    |-> jd,
     use23Switch |-> use23Switch]

\* calcFourPillars from the year pillar on
calcFourPillarsYear(localDate, use23Switch, zone, jd, yearPillar) ==
    calcFourPillarsDay(localDate, use23Switch, jd, yearPillar,
        calcMonthPillar(jd, yearPillar.stemIndex),
        calcDayPillar(IF use23Switch /\ localDate.hours >= 23 THEN JDAdd(jd, TPD) ELSE jd,
                      zone))

\* calcFourPillars, given jd
calcFourPillarsAt(localDate, use23Switch, zone, jd) ==
    calcFourPillarsYear(localDate, use23Switch, zone, jd, calcYearPillar(jd))

\* SolarTermEngine.calcFourPillars(localDate, use23Switch), on a host
\* configured with zone
calcFourPillars(localDate, use23Switch, zone) ==
    calcFourPillarsAt(localDate, use23Switch, zone,
                      dateToJD(DateAddSeconds(localDate.time, 0 - 9 * 60 * 60)))

\* SolarTermEngine.getAllHiddenStems(fourPillars); the days are in ticks and
\* fourPillars.month.daysFromJieqi || 15 takes 15 for 0
getAllHiddenStems(fourPillars) ==
    [year  |-> getHiddenStems(fourPillars.year.branch, 15 * TPD),
     month |-> getHiddenStems(fourPillars.month.branch,
                   IF fourPillars.month.daysFromJieqi = 0 THEN 15 * TPD
                   ELSE fourPillars.month.daysFromJieqi),
     day   |-> getHiddenStems(fourPillars.day.branch, 15 * TPD),
     hour  |-> getHiddenStems(fourPillars.hour.branch, 15 * TPD)]

(**************************************************************************)
(* The caller of the four pillars                                          *)
(**************************************************************************)

\* Birth dates (1950-07-01 lies in Japanese summer time), hours and minutes
BirthDates ==
    { <<1950, 7, 1>>, <<1992, 2, 16>>, <<1999, 12, 31>>, <<2000, 1, 15>>,
      <<2000, 2, 4>>, <<2024, 2, 29>>,
      <<2001, 3, 20>>, <<2001, 4, 10>>, <<2001, 5, 25>>, <<2001, 7, 20>>,
      <<2001, 8, 15>>, <<2001, 9, 10>>, <<2001, 10, 20>>, <<2001, 11, 10>> }

BirthHours == {0, 8, 9, 22, 23}

BirthMinutes == {0, 30, 59}

\* Branches of the year, day and hour pillars handed to getAllHiddenStems
OtherBranches == {"zi", "wu", "hai"}

CallCalcFourPillars ==
    /\ op = "idle"
    /\ \E date \in BirthDates, hours \in BirthHours, minutes \in BirthMinutes,
          use23Switch \in BOOLEAN, zone \in HostZones :
          /\ op' = "calcFourPillars"
          /\ args' = [year |-> date[1], month |-> date[2], day |-> date[3],
                      hours |-> hours, minutes |-> minutes,
                      use23Switch |-> use23Switch, zone |-> zone]
          /\ ret' = calcFourPillars(
                        LocalDate(zone, date[1], date[2], date[3], hours, minutes),
                        use23Switch, zone)

CallGetAllHiddenStems ==
    /\ op = "idle"
    /\ \E b \in 1..Len(BRANCHES), other \in OtherBranches, k \in 0..HiddenDaySpan,
          e \in {0 - 1, 0, 1} :
          /\ k * TPD + e >= 0
          /\ op' = "getAllHiddenStems"
          /\ args' = [fourPillars |->
                         [year  |-> [branch |-> other],
                          month |-> [branch |-> BRANCHES[b], daysFromJieqi |-> k * TPD + e],
                          day   |-> [branch |-> other],
                          hour  |-> [branch |-> other]]]
          /\ ret' = getAllHiddenStems(
                         [year  |-> [branch |-> other],
                          month |-> [branch |-> BRANCHES[b], daysFromJieqi |-> k * TPD + e],
                          day   |-> [branch |-> other],
                          hour  |-> [branch |-> other]])

PillarsNext ==
    \/ CallCalcFourPillars
    \/ CallGetAllHiddenStems
    \/ Return

SpecPillars == Init /\ [][PillarsNext]_vars

\* C19: in calcFourPillars with the 23:00 rollover and a local hour >= 23 on
\* the civil date D, the day pillar is that of D + 1 and the hour pillar has
\* the branch zi and the stem that starts the hours of the returned day
\* pillar, hour.stemIndex = HOUR_STEM_START[day.stemIndex], which is the hour
\* stem of a birth at 00:30 on D + 1.
C19_LateHourUsesNextDayStem ==
    op = "calcFourPillars" /\ args.use23Switch /\ args.hours >= 23 =>
        /\ ret.day.sexagenaryIndex
              = (59 + MakeDay(args.year, args.month, args.day) + 1 - MakeDay(1992, 2, 17)) % 60
        /\ ret.hour.branchIndex = 0
        /\ ret.hour.stemIndex = HOUR_STEM_START[ret.day.stemIndex + 1]
        /\ ret.hour.stemIndex
              = calcFourPillars(LocalDate(args.zone, args.year, args.month, args.day + 1, 0, 30),
                                TRUE, args.zone).hour.stemIndex

\* 23:30 on 15 January 2000 on a host in UTC: the day pillar returned is that
\* of 16 January (index 9, stem 9), whose hours start at stem 8 (as 00:30 on
\* 16 January gets), and the hour pillar has stem 0, the start of the hours
\* of a day of stem 0, the stem of 17 January
C19_StemAdvancedTwice ==
    /\ op = "calcFourPillars"
    /\ args.zone.name = "UTC"
    /\ args.use23Switch
    /\ [year |-> args.year, month |-> args.month, day |-> args.day,
        hours |-> args.hours, minutes |-> args.minutes]
          = [year |-> 2000, month |-> 1, day |-> 15, hours |-> 23, minutes |-> 30]
    /\ ret.day.sexagenaryIndex = 9
    /\ HOUR_STEM_START[ret.day.stemIndex + 1] = 8
    /\ calcFourPillars(LocalDate(args.zone, 2000, 1, 16, 0, 30), TRUE, args.zone).hour.stemIndex = 8
    /\ ret.hour.branchIndex = 0
    /\ ret.hour.stemIndex = 0

\* C20: getAllHiddenStems takes the hidden stem and the phase of the month
\* pillar from the month pillar's own daysFromJieqi for every value d >= 0
\* of it, d = 0 giving the first span and the phase residual; the year, day
\* and hour pillars use the fixed value of 15 days.
C20_MonthUsesOwnDays ==
    op = "getAllHiddenStems" =>
        /\ ret.month.mainStem
              = getHiddenStems(args.fourPillars.month.branch,
                               args.fourPillars.month.daysFromJieqi).mainStem
        /\ ret.month.phase
              = getHiddenStems(args.fourPillars.month.branch,
                               args.fourPillars.month.daysFromJieqi).phase
        /\ (args.fourPillars.month.daysFromJieqi = 0 =>
               /\ ret.month.mainStem
                     = HIDDEN_STEMS_DETAIL[args.fourPillars.month.branch].stems[1]
               /\ ret.month.phase = "residual")
        /\ ret.year = getHiddenStems(args.fourPillars.year.branch, 15 * TPD)
        /\ ret.day = getHiddenStems(args.fourPillars.day.branch, 15 * TPD)
        /\ ret.hour = getHiddenStems(args.fourPillars.hour.branch, 15 * TPD)

\* A month pillar of branch yin exactly at its node (d = 0) is given the
\* last of its stems, Jia, and the phase proper, those of day 15, in place
\* of the first stem Wu and the phase residual
C20_AtTheNode ==
    /\ op = "getAllHiddenStems"
    /\ args.fourPillars.month.branch = "yin"
    /\ args.fourPillars.month.daysFromJieqi = 0
    /\ ret.month.mainStem = "Jia"
    /\ ret.month.phase = "proper"
    /\ ret.month.daysFromJieqi = 15 * TPD

(**************************************************************************)
(* ChineseCalendar: the fallback of BaZi.calculate                         *)
(**************************************************************************)

\* ChineseCalendar.VOID_BRANCHES (group + 1)
VOID_BRANCHES ==
    << <<"xu", "hai">>, <<"shen", "you">>, <<"wu", "wei">>,
       <<"chen", "si">>, <<"yin", "mao">>, <<"zi", "chou">> >>

\* ChineseCalendar.calcVoidBranches(dayPillar)
ChineseCalendar_calcVoidBranches(dayPillar) ==
    LET sexagenaryIndex == JSMod(dayPillar.stemIndex + dayPillar.branchIndex * 10, 60)
        group           == sexagenaryIndex \div 10
    IN  VOID_BRANCHES[group + 1]

CallChineseCalendarCalcVoidBranches ==
    /\ op = "idle"
    /\ \E i \in 0..59 :
          /\ op' = "ChineseCalendar.calcVoidBranches"
          /\ args' = [dayPillar |-> Pillar(i)]
          /\ ret' = ChineseCalendar_calcVoidBranches(Pillar(i))


(***************************************************************************)
(* DivinationModules.Mayan: the Dreamspell kin                             *)
(***************************************************************************)

\* new Date(year, month - 1, day, hours, minutes) on a host configured with
\* zone: the civil fields it reports and its getTime(), in minutes
MayanDate(zone, year, month, day, hours, minutes) ==
    [year |-> year, month |-> month, day |-> day,
     time |-> LocalMidnight(zone, year, month, day) + hours * 60 + minutes]

\* Mayan.DREAMSPELL_EPOCH: new Date(1987, 6, 26)
DREAMSPELL_EPOCH(zone) == MayanDate(zone, 1987, 7, 26, 0, 0)

\* Mayan.isLeapYear(year)
isLeapYear(year) ==
    (JSMod(year, 4) = 0 /\ JSMod(year, 100) # 0) \/ JSMod(year, 400) = 0

\* Mayan.isHunabKuDay(date)
isHunabKuDay(date) == date.month = 2 /\ date.day = 29

\* Mayan.countLeapDays(start, end): the loop from year on, with count so far
RECURSIVE countLeapDaysFrom(_, _, _, _, _)
countLeapDaysFrom(start, end, zone, year, count) ==
    IF year > end.year
    THEN count
    ELSE countLeapDaysFrom(start, end, zone, year + 1,
            IF /\ isLeapYear(year)
               /\ start.time <= LocalMidnight(zone, year, 2, 29)
               /\ LocalMidnight(zone, year, 2, 29) < end.time
            THEN count + 1 ELSE count)

\* Mayan.countLeapDays(start, end)
countLeapDays(start, end, zone) == countLeapDaysFrom(start, end, zone, start.year, 0)

\* let kin = (adjustedDays % 260) + 1;  if (kin <= 0) kin += 260
calcKinOf(adjustedDays) ==
    IF JSMod(adjustedDays, 260) + 1 <= 0
    THEN JSMod(adjustedDays, 260) + 1 + 260
    ELSE JSMod(adjustedDays, 260) + 1

\* Mayan.calcKinDreamspell(date), on a host configured with zone
calcKinDreamspell(date, zone) ==
    IF isHunabKuDay(date)
    THEN Null
    ELSE calcKinOf((date.time - DREAMSPELL_EPOCH(zone).time) \div (60 * 24)
                   - countLeapDays(DREAMSPELL_EPOCH(zone), date, zone))

\* Years of the dates given to Mayan: two leap years before the epoch, the
\* year of the epoch, and two leap years after it
MayanYears == {1980, 1984, 1987, 1988, 2000}

MayanHours == {0, 12, 23}

CallCalcKinDreamspell ==
    /\ op = "idle"
    /\ \E zone \in HostZones, year \in MayanYears, month \in 1..12, hours \in MayanHours :
          \E day \in 1..DaysInMonth(year, month) :
              /\ op' = "calcKinDreamspell"
              /\ args' = [date |-> MayanDate(zone, year, month, day, hours, 0),
                          hours |-> hours, zone |-> zone]
              /\ ret' = calcKinDreamspell(MayanDate(zone, year, month, day, hours, 0), zone)

(***************************************************************************)
(* KyuseiAdvanced: the direction board and its judgment                    *)
(***************************************************************************)

\* KyuseiAdvanced.STAR_ELEMENTS
STAR_ELEMENTS ==
    << "water", "earth", "wood", "wood", "earth", "metal", "metal", "earth", "fire" >>

\* KyuseiAdvanced.OPPOSITE
OPPOSITE ==
    [dir \in {"N", "NE", "E", "SE", "S", "SW", "W", "NW"} |->
        CASE dir = "N"  -> "S"  [] dir = "NE" -> "SW" [] dir = "E"  -> "W"
          [] dir = "SE" -> "NW" [] dir = "S"  -> "N"  [] dir = "SW" -> "NE"
          [] dir = "W"  -> "E"  [] dir = "NW" -> "SE"]

\* DIRECTION_TO_PALACE of createBoard, as Object.entries lists it
DIRECTION_TO_PALACE ==
    << <<"N", 1>>, <<"SW", 2>>, <<"E", 3>>, <<"SE", 4>>,
       <<"NW", 6>>, <<"W", 7>>, <<"NE", 8>>, <<"S", 9>> >>

\* let star = ((centerStar - 1) + offset) % 9 + 1;  if (star <= 0) star += 9
boardStar(centerStar, offset) ==
    IF JSMod((centerStar - 1) + offset, 9) + 1 <= 0
    THEN JSMod((centerStar - 1) + offset, 9) + 1 + 9
    ELSE JSMod((centerStar - 1) + offset, 9) + 1

\* KyuseiAdvanced.createBoard(centerStar): the entries of board, in the order
\* of their insertion
createBoard(centerStar) ==
    [k \in 1..Len(DIRECTION_TO_PALACE) |->
        << DIRECTION_TO_PALACE[k][1],
           boardStar(centerStar, DIRECTION_TO_PALACE[k][2] - 5) >>]

\* SHENG of judgeDirections
SHENG ==
    [e \in {"wood", "fire", "earth", "metal", "water"} |->
        CASE e = "wood" -> "fire" [] e = "fire" -> "earth" [] e = "earth" -> "metal"
          [] e = "metal" -> "water" [] e = "water" -> "wood"]

\* array.includes(dir)
includes(array, dir) == \E k \in 1..Len(array) : array[k] = dir

\* The loop of judgeDirections from entry k of Object.entries(board) on.
\* judgeDirectionsLucky is the second half of the body, once the entry's
\* gooSatsu and ankenSatsu are pushed.
RECURSIVE judgeDirectionsLoop(_, _, _, _, _, _)
judgeDirectionsLucky(board, userStar, k, gooSatsu, ankenSatsu, luckyDirs) ==
    judgeDirectionsLoop(board, userStar, k + 1, gooSatsu, ankenSatsu,
        IF /\ \/ SHENG[STAR_ELEMENTS[userStar]] = STAR_ELEMENTS[board[k][2]]
              \/ SHENG[STAR_ELEMENTS[board[k][2]]] = STAR_ELEMENTS[userStar]
           /\ ~includes(gooSatsu, board[k][1])
           /\ ~includes(ankenSatsu, board[k][1])
        THEN Append(luckyDirs, board[k][1])
        ELSE luckyDirs)

judgeDirectionsLoop(board, userStar, k, gooSatsu, ankenSatsu, luckyDirs) ==
    IF k > Len(board)
    THEN [gooSatsu |-> gooSatsu, ankenSatsu |-> ankenSatsu, luckyDirs |-> luckyDirs]
    ELSE IF board[k][2] = 5
         THEN judgeDirectionsLucky(board, userStar, k,
                  Append(gooSatsu, board[k][1]),
                  Append(ankenSatsu, OPPOSITE[board[k][1]]), luckyDirs)
         ELSE judgeDirectionsLucky(board, userStar, k, gooSatsu, ankenSatsu, luckyDirs)

\* KyuseiAdvanced.judgeDirections(board, userStar)
judgeDirections(board, userStar) ==
    judgeDirectionsLoop(board, userStar, 1, << >>, << >>, << >>)

CallJudgeDirections ==
    /\ op = "idle"
    /\ \E centerStar \in 1..9, userStar \in 1..9 :
          /\ op' = "judgeDirections"
          /\ args' = [centerStar |-> centerStar, userStar |-> userStar,
                      board |-> createBoard(centerStar)]
          /\ ret' = judgeDirections(createBoard(centerStar), userStar)

ChartsNext ==
    \/ CallChineseCalendarCalcVoidBranches
    \/ CallCalcKinDreamspell
    \/ CallJudgeDirections
    \/ Return

SpecCharts == Init /\ [][ChartsNext]_vars


\* C21: for each of the 60 valid day pillars (stemIndex s, branchIndex b)
\* ChineseCalendar.calcVoidBranches returns the table entry floor(i / 10), i
\* being the one index of [0,60) with i mod 10 = s and i mod 12 = b, which
\* is the branch pair SolarTermEngine.calcVoidBranches returns for it.
C21_FallbackVoidBranches ==
    op = "ChineseCalendar.calcVoidBranches" =>
        \A i \in 0..59 :
            (i % 10 = args.dayPillar.stemIndex /\ i % 12 = args.dayPillar.branchIndex) =>
                /\ ret = VOID_BRANCHES[(i \div 10) + 1]
                /\ ret = calcVoidBranches(calcDayPillarAt(i)).branches

\* The pillar of index 1 (stem 1, branch 1) is taken for index 11 and gets
\* the pair of the second group, shen and you, for xu and hai
C21_SecondPillar ==
    /\ op = "ChineseCalendar.calcVoidBranches"
    /\ args.dayPillar.stemIndex = 1
    /\ args.dayPillar.branchIndex = 1
    /\ calcVoidBranches(calcDayPillarAt(1)).branches = <<"xu", "hai">>
    /\ ret = <<"shen", "you">>

(**************************************************************************)
(* Kyusei.calculate                                                        *)
(**************************************************************************)

\* Kyusei.calculate, given the year star
calculateStars(year, month, day, targetYear, yearStarNum, kigakuMonth, dayResult) ==
    [targetYear   |-> targetYear,
     kigakuMonth  |-> kigakuMonth,
     yearStarNum  |-> yearStarNum,
     monthStarNum |-> calcMonthStar(yearStarNum, kigakuMonth),
     dayStarNum   |-> dayResult.dayStarNum,
     isYoton      |-> dayResult.isYoton]

\* Kyusei.calculate, given targetYear
calculateIn(year, month, day, targetYear) ==
    calculateStars(year, month, day, targetYear, calcYearStar(targetYear),
                   getKigakuMonth(year, month, day), calcDayStar(year, month, day))

\* Kyusei.calculate(date, gender), given the getFullYear(), getMonth() + 1
\* and getDate() of date
calculate(year, month, day) ==
    calculateIn(year, month, day,
        IF JDLess(NoonJD(calcJD(year, month, day)), findSolarLongitudeDate(315, year))
        THEN year - 1
        ELSE year)

ReadingYears == 1999..2001

CallCalculate ==
    /\ op = "idle"
    /\ \E year \in ReadingYears, month \in 1..12 :
          \E day \in 1..DaysInMonth(year, month) :
              /\ op' = "calculate"
              /\ args' = [year |-> year, month |-> month, day |-> day]
              /\ ret' = calculate(year, month, day)

CallCalcYotonStart ==
    /\ op = "idle"
    /\ \E year \in RootYears :
          /\ op' = "calcYotonStart"
          /\ args' = [year |-> year]
          /\ ret' = calcYotonStart(year)

CallCalcIntonStart ==
    /\ op = "idle"
    /\ \E year \in RootYears :
          /\ op' = "calcIntonStart"
          /\ args' = [year |-> year]
          /\ ret' = calcIntonStart(year)

ReadingNext ==
    \/ CallCalculate
    \/ CallCalcYotonStart
    \/ CallCalcIntonStart
    \/ Return

SpecReading == Init /\ [][ReadingNext]_vars

\* C22: Kyusei.calculate sets targetYear to the civil year of the date when
\* the date is on or after that year's start of spring (the sun at 315
\* degrees, in February) and to the year before only when the date precedes
\* it; yearStarNum is calcYearStar(targetYear); a birth on 17 February or on
\* 1 July of year Y has targetYear = Y.
C22_TargetYear ==
    op = "calculate" =>
        /\ ret.targetYear
              = IF args.month >= 3 THEN args.year
                ELSE IF args.month = 1 THEN args.year - 1
                ELSE IF SeamDiff(calcSunLongitude(NoonJD(calcJD(args.year, 2, args.day)))
                                 - 315 * DEG) >= 0
                     THEN args.year
                     ELSE args.year - 1
        /\ ret.yearStarNum = calcYearStar(ret.targetYear)
        /\ (<<args.month, args.day>> \in {<<2, 17>>, <<7, 1>>} => ret.targetYear = args.year)

\* 1 July 2000 is given the year 1999 and its star 1 (2000 has star 9): the
\* start of spring of 2000 is put on 1 December 2000
C22_FirstOfJuly ==
    /\ op = "calculate"
    /\ args = [year |-> 2000, month |-> 7, day |-> 1]
    /\ jdToGregorian(findSolarLongitudeDate(315, 2000)) = [year |-> 2000, month |-> 12, day |-> 1]
    /\ ret.targetYear = 1999
    /\ ret.yearStarNum = 1
    /\ calcYearStar(2000) = 9

\* The solstice whose anchor the call in progress has returned
AnchoredSolstice ==
    IF op = "calcYotonStart" THEN calcWinterSolstice(args.year)
    ELSE calcSummerSolstice(args.year)

\* The time, in ticks, between noon of the day number n and the instant jd
NoonDistance(n, jd) == Abs(JDDiff(NoonJD(n), jd))

\* The anchor day a of a solstice: of the wanted index, within 30 days of the
\* solstice, and no day of that index nearer (the later one on a tie)
IsNearestCycleDay(a, index, solstice) ==
    /\ (a - 2445731) % 60 = index
    /\ NoonDistance(a, solstice) <= 30 * TPD
    /\ NoonDistance(a - 60, solstice) >= NoonDistance(a, solstice)
    /\ NoonDistance(a + 60, solstice) > NoonDistance(a, solstice)

\* C23: for every year the first whole-day JDN at or after the value that
\* calcYotonStart (calcIntonStart) returns has the sexagenary day index 0
\* (30), lies within 30 days of the winter (summer) solstice instant, which
\* is the instant the sun is at 270 (90) degrees, and no other day of that
\* index is strictly closer to the solstice, the later day winning a tie.
C23_AnchorIsNearestCycleDay ==
    op \in {"calcYotonStart", "calcIntonStart"} =>
        /\ IsNearestCycleDay(AnchorDay(ret), IF op = "calcYotonStart" THEN 0 ELSE 30,
                             AnchoredSolstice)
        /\ Abs(SeamDiff(calcSunLongitude(AnchoredSolstice)
                        - (IF op = "calcYotonStart" THEN 270 ELSE 90) * DEG)) < 1000

\* A year whose winter anchor is the day of index 0 after the solstice (the
\* solstice of 2000, 21 December, has the day of index 0 on 1 January 2001)
C23_AnchorAfterSolstice ==
    /\ op = "calcYotonStart"
    /\ args.year = 2000
    /\ jdToGregorian(NoonJD(AnchorDay(ret))) = [year |-> 2001, month |-> 1, day |-> 1]
    /\ JDLess(AnchoredSolstice, ret)

(**************************************************************************)
(* The root finders and their step budgets                                 *)
(**************************************************************************)

\* The correction loop of AstroCalc.findSolarTermTime from iteration i on:
\* the estimate it ends with, the number of longitudes it evaluated, and
\* whether it left through the tolerance test (0.0001 degree)
RECURSIVE findSolarTermTimeLoop(_, _, _)
findSolarTermTimeStep(targetLongitude, jd, i, diff) ==
    IF Abs(diff) < 100
    THEN [jd |-> jd, evaluations |-> i + 1, converged |-> TRUE]
    ELSE findSolarTermTimeLoop(targetLongitude, JDAdd(jd, DegToTicks(diff)), i + 1)

findSolarTermTimeLoop(targetLongitude, jd, i) ==
    IF i >= 20
    THEN [jd |-> jd, evaluations |-> i, converged |-> FALSE]
    ELSE findSolarTermTimeStep(targetLongitude, jd, i,
                               WrapDiff(targetLongitude - getSunLongitude(jd)))

\* What the loop of findSolarTermTime(targetLongitude, startJD) did
findSolarTermTimeRun(targetLongitude, startJD) ==
    findSolarTermTimeLoop(
        targetLongitude,
        JDAdd(startJD, DegToTicks(WrapDiff(targetLongitude - getSunLongitude(startJD)))),
        0)

\* AstroCalc.findSolarTermTime(targetLongitude, startJD);
\* targetLongitude in micro-degrees
findSolarTermTime(targetLongitude, startJD) ==
    findSolarTermTimeRun(targetLongitude, startJD).jd

\* The halvings the loop of findSolarLongitudeDate makes from a bracket on
RECURSIVE findSolarLongitudeHalvings(_, _)
findSolarLongitudeHalvingsStep(targetLon, bracket, jdMid) ==
    1 + findSolarLongitudeHalvings(targetLon,
            findSolarLongitudeHalve(bracket.jdLow, bracket.jdHigh, jdMid,
                SeamDiff(calcSunLongitude(jdMid) - targetLon * DEG)))

findSolarLongitudeHalvings(targetLon, bracket) ==
    IF JDDiff(bracket.jdHigh, bracket.jdLow) > tolerance
    THEN findSolarLongitudeHalvingsStep(targetLon, bracket,
             JDAdd(bracket.jdLow, JDDiff(bracket.jdHigh, bracket.jdLow) \div 2))
    ELSE 0

\* Target longitudes in degrees: the 24 of the terms, two beside the seam,
\* and one outside [0, 360)
FinderTargets == { 15 * k : k \in 0..23 } \cup {1, 359, 1000}

\* Starts of the search: noon of every 30th day of 2000
FinderStarts == { NoonJD(2451545 + 30 * k) : k \in 0..12 }

CallFindSolarTermJD ==
    /\ op = "idle"
    /\ \E targetLongitude \in FinderTargets, startJD \in FinderStarts :
          /\ op' = "findSolarTermJD"
          /\ args' = [targetLongitude |-> targetLongitude, startJD |-> startJD]
          /\ ret' = findSolarTermJD(targetLongitude * DEG, startJD)

CallFindSolarTermTime ==
    /\ op = "idle"
    /\ \E targetLongitude \in FinderTargets, startJD \in FinderStarts :
          /\ op' = "findSolarTermTime"
          /\ args' = [targetLongitude |-> targetLongitude, startJD |-> startJD]
          /\ ret' = findSolarTermTime(targetLongitude * DEG, startJD)

FindersNext ==
    \/ CallFindSolarTermJD
    \/ CallFindSolarTermTime
    \/ CallFindSolarLongitudeDate
    \/ Return

SpecFinders == Init /\ [][FindersNext]_vars

\* C24: both root finders end within a fixed number of steps: after the
\* first jump the loop of findSolarTermJD evaluates the sun's longitude at
\* most 30 times and that of findSolarTermTime at most 20 times, for any
\* target and start, and the loop of Kyusei.findSolarLongitudeDate halves
\* its bracket at most 20 times before the width is 0.0001 day or less, for
\* the 13-day solstice bracket and the 30-day general one.
C24_StepBudgets ==
    /\ op = "findSolarTermJD" =>
          /\ findSolarTermRun(args.targetLongitude * DEG, args.startJD).evaluations <= 30
          /\ ret = findSolarTermRun(args.targetLongitude * DEG, args.startJD).jd
    /\ op = "findSolarTermTime" =>
          /\ findSolarTermTimeRun(args.targetLongitude * DEG, args.startJD).evaluations <= 20
          /\ ret = findSolarTermTimeRun(args.targetLongitude * DEG, args.startJD).jd
    /\ op = "findSolarLongitudeDate" =>
          /\ findSolarLongitudeHalvings(args.targetLon,
                 [jdLow  |-> findSolarLongitudeLow(args.targetLon, args.year),
                  jdHigh |-> findSolarLongitudeHigh(args.targetLon, args.year)])
                <= 20
          /\ JDDiff(findSolarLongitudeHigh(args.targetLon, args.year),
                    findSolarLongitudeLow(args.targetLon, args.year))
                = (IF args.targetLon \in {270, 90} THEN 13 ELSE 30) * TPD

\* A search that uses its whole budget: no longitude is within the
\* tolerance of the target 1000, and the loop stops after 30 evaluations
C24_WholeBudget ==
    /\ op = "findSolarTermJD"
    /\ args.targetLongitude = 1000
    /\ findSolarTermRun(args.targetLongitude * DEG, args.startJD).evaluations = 30
    /\ ~findSolarTermRun(args.targetLongitude * DEG, args.startJD).converged

\* C25: when findSolarTermJD uses up its 30 iterations without the wrapped
\* difference meeting the tolerance, what it returns tells the caller so: a
\* failure value, or a result that carries a convergence flag set to false,
\* and not an instant of the kind a converged run returns.
C25_NonConvergenceObservable ==
    (op = "findSolarTermJD"
        /\ ~findSolarTermRun(args.targetLongitude * DEG, args.startJD).converged) =>
        \/ ret = Null
        \/ ("converged" \in DOMAIN ret /\ ret.converged = FALSE)

\* The search for the target 1000 from noon of 1 January 2000 never meets
\* the tolerance; the 30th estimate comes back as a Julian Date like any other
C25_UnconvergedEstimateReturned ==
    /\ op = "findSolarTermJD"
    /\ args.targetLongitude = 1000
    /\ args.startJD = NoonJD(2451545)
    /\ ~findSolarTermRun(args.targetLongitude * DEG, args.startJD).converged
    /\ DOMAIN ret = {"z", "f"}
    /\ ret = findSolarTermRun(args.targetLongitude * DEG, args.startJD).jd
    /\ ret.z > 2451545 + 30 * 280

\* One of the 60 pairs of the sexagenary cycle
IsSexagenaryPair(pillar) ==
    /\ pillar.stemIndex \in 0..9
    /\ pillar.branchIndex \in 0..11
    /\ pillar.stemIndex % 2 = pillar.branchIndex % 2
    /\ pillar.stem = STEMS[pillar.stemIndex + 1]
    /\ pillar.branch = BRANCHES[pillar.branchIndex + 1]

\* C26: every pillar calcFourPillars returns, for any birth instant and
\* either day-boundary convention, is one of the 60 valid sexagenary pairs:
\* for the year, month, day and hour pillar stemIndex is in [0,10),
\* branchIndex in [0,12) and stemIndex mod 2 = branchIndex mod 2.
C26_PillarsAreSexagenaryPairs ==
    op = "calcFourPillars" =>
        /\ IsSexagenaryPair(ret.year)
        /\ IsSexagenaryPair(ret.month)
        /\ IsSexagenaryPair(ret.day)
        /\ IsSexagenaryPair(ret.hour)

\* A birth in the hour from 23:00 with the rollover, in the twelfth month
\* (branch chou)
C26_LateHourBeforeNode ==
    /\ op = "calcFourPillars"
    /\ args.hours = 23
    /\ args.use23Switch
    /\ ret.hour.dayAdjusted
    /\ ret.month.monthNum = 12
    /\ ret.month.branchIndex = 1
    /\ IsSexagenaryPair(ret.hour)

\* The civil date at UTC+9 of the instant jd
LocalCivilDate(jd) == DateFromDay(LocalDayNumber(jd))

\* C27: for every civil date the sexagenary day index of the nine-star day
\* computation, (Kyusei.calcJD(year, month, day) - 2445731) mod 60, equals
\* the sexagenaryIndex calcDayPillar returns for an instant whose UTC+9
\* calendar date is that date; the anchors JDN 2445731 = index 0 and
\* 1992-02-17 = index 59 agree, across leap years and century years.
C27_DayIndicesAgree ==
    op = "calcDayPillar" =>
        /\ ret.sexagenaryIndex
              = (calcJD(LocalCivilDate(args.jd).year, LocalCivilDate(args.jd).month,
                        LocalCivilDate(args.jd).day) - 2445731) % 60
        /\ (calcJD(1992, 2, 17) - 2445731) % 60 = 59

\* Noon UTC of 1 July 2024 on a host in Europe/Berlin: the nine-star index
\* of 1 July 2024 is 2 and calcDayPillar returns 1
C27_SummerTimeHost ==
    /\ op = "calcDayPillar"
    /\ args.zone.name = "Europe/Berlin"
    /\ args.jd = [z |-> 2460493, f |-> TPD \div 2]
    /\ LocalCivilDate(args.jd) = [year |-> 2024, month |-> 7, day |-> 1]
    /\ (calcJD(2024, 7, 1) - 2445731) % 60 = 2
    /\ ret.sexagenaryIndex = 1

\* C28: the result of calcDayPillar(jd) is a function of jd alone: under any
\* two host time-zone configurations, one with summer time in force on the
\* target date and not on 1992-02-17 included, the same jd gets the same
\* sexagenaryIndex.
C28_HostZoneIndependent ==
    op = "calcDayPillar" =>
        \A zone \in HostZones :
            calcDayPillar(args.jd, zone).sexagenaryIndex = ret.sexagenaryIndex

\* Noon UTC of 1 July 2024: index 2 on a host in UTC, index 1 on a host in
\* Europe/Berlin, where summer time holds on that date and not on 1992-02-17
C28_TwoHostsTwoIndices ==
    /\ op = "calcDayPillar"
    /\ args.zone.name = "UTC"
    /\ args.jd = [z |-> 2460493, f |-> TPD \div 2]
    /\ ret.sexagenaryIndex = 2
    /\ \E zone \in HostZones :
          /\ zone.name = "Europe/Berlin"
          /\ HostOffset(zone, 2024, 7) # HostOffset(zone, 1992, 2)
          /\ calcDayPillar(args.jd, zone).sexagenaryIndex = 1

\* The civil date after a civil date, and the one after that on 28 February
\* of a leap year
NextCivilDate(date) == DateFromDay(MakeDay(date.year, date.month, date.day) + 1)

NextKinDate(date) ==
    IF isHunabKuDay(NextCivilDate(date))
    THEN NextCivilDate(NextCivilDate(date))
    ELSE NextCivilDate(date)

\* The same time of day on the next date that has a kin
NextKinDay(a) ==
    MayanDate(a.zone, NextKinDate(a.date).year, NextKinDate(a.date).month,
              NextKinDate(a.date).day, a.hours, 0)

\* C29: calcKinDreamspell gives every date other than 29 February a kin in
\* 1..260, the kin advances by exactly 1 (260 wrapping to 1) from each such
\* date to the next, 29 February being skipped and given no kin, for dates
\* before the epoch 1987-07-26 as well as after it.
C29_KinAdvancesByOne ==
    op = "calcKinDreamspell" =>
        IF isHunabKuDay(args.date)
        THEN ret = Null
        ELSE /\ ret \in 1..260
             /\ calcKinDreamspell(NextKinDay(args), args.zone) = (ret % 260) + 1

\* 28 February 1984, before the epoch, on a host in UTC: kin 57, and kin 59
\* on 1 March 1984
C29_LeapDayBeforeEpoch ==
    /\ op = "calcKinDreamspell"
    /\ args.zone.name = "UTC"
    /\ args.hours = 0
    /\ [year |-> args.date.year, month |-> args.date.month, day |-> args.date.day]
          = [year |-> 1984, month |-> 2, day |-> 28]
    /\ NextKinDate(args.date) = [year |-> 1984, month |-> 3, day |-> 1]
    /\ ret \in 1..260
    /\ calcKinDreamspell(NextKinDay(args), args.zone) = (((ret % 260) + 1) % 260) + 1

\* C30: for every center star and every user star in 1..9, judgeDirections on
\* createBoard(center) lists in luckyDirs no direction that is also in
\* gooSatsu (the direction holding star 5) or in ankenSatsu (its opposite).
C30_LuckyExcludesUnlucky ==
    op = "judgeDirections" =>
        \A k \in 1..Len(ret.luckyDirs) :
            /\ ~includes(ret.gooSatsu, ret.luckyDirs[k])
            /\ ~includes(ret.ankenSatsu, ret.luckyDirs[k])

\* Center star 1, user star 2: star 5 is in the south, which the loop visits
\* last; the north, with star 6, was listed as lucky before the south made
\* it ankenSatsu
C30_OppositeVisitedFirst ==
    /\ op = "judgeDirections"
    /\ args.centerStar = 1 /\ args.userStar = 2
    /\ args.board[1] = <<"N", 6>> /\ args.board[8] = <<"S", 5>>
    /\ ret.gooSatsu = <<"S">>
    /\ ret.ankenSatsu = <<"N">>
    /\ includes(ret.luckyDirs, "N")

====
